---- MODULE Spec2Model ----
(***************************************************************************)
(* A model of the configly loader (source.go): New, Load, parseAllTags,   *)
(* parseTag, getValueFromSources, setField and validateField, with the    *)
(* mock source of the sources package.                                    *)
(*                                                                         *)
(* Go strings are sequences of one-character strings, so that Split,      *)
(* TrimSpace, HasPrefix and the strconv parsers are computed character by *)
(* character.  A Go pointer is a sequence of length 0 (nil) or 1.         *)
(***************************************************************************)
EXTENDS Integers, Sequences, FiniteSets, TLC

(***************************************************************************)
(* Bounds of the model.                                                    *)
(***************************************************************************)
MaxFields == 2
MaxSources == 2
MaxOpts == 2

(***************************************************************************)
(* String literals.                                                        *)
(***************************************************************************)
Empty == << >>
Comma == <<",">>
Space == <<" ">>
sRequired == <<"r","e","q","u","i","r","e","d">>
sDefaultEq == <<"d","e","f","a","u","l","t","=">>
sMinEq == <<"m","i","n","=">>
sMaxEq == <<"m","a","x","=">>
sMinLenEq == <<"m","i","n","L","e","n","=">>
sMaxLenEq == <<"m","a","x","L","e","n","=">>
defaultTagKey == "configly"

Digits == {"0","1","2","3","4","5","6","7","8","9"}
DigitVal(c) == CASE c = "0" -> 0 [] c = "1" -> 1 [] c = "2" -> 2 [] c = "3" -> 3
                 [] c = "4" -> 4 [] c = "5" -> 5 [] c = "6" -> 6 [] c = "7" -> 7
                 [] c = "8" -> 8 [] c = "9" -> 9

(***************************************************************************)
(* The strings package.                                                    *)
(***************************************************************************)
Tail2(s, n) == SubSeq(s, n + 1, Len(s))

HasPrefix(s, p) == Len(s) >= Len(p) /\ SubSeq(s, 1, Len(p)) = p

TrimPrefix(s, p) == IF HasPrefix(s, p) THEN Tail2(s, Len(p)) ELSE s

RECURSIVE TrimLeft(_)
TrimLeft(s) == IF s # Empty /\ Head(s) = " " THEN TrimLeft(Tail(s)) ELSE s

RECURSIVE TrimRight(_)
TrimRight(s) ==
    IF s # Empty /\ s[Len(s)] = " " THEN TrimRight(SubSeq(s, 1, Len(s) - 1)) ELSE s

TrimSpace(s) == TrimRight(TrimLeft(s))

\* strings.Split(s, ","): the segments between the commas, at least one.
RECURSIVE SplitFrom(_, _, _)
SplitFrom(s, i, cur) ==
    IF i > Len(s) THEN <<cur>>
    ELSE IF s[i] = "," THEN <<cur>> \o SplitFrom(s, i + 1, Empty)
    ELSE SplitFrom(s, i + 1, Append(cur, s[i]))

Split(s) == SplitFrom(s, 1, Empty)

RECURSIVE JoinComma(_)
JoinComma(parts) ==
    IF Len(parts) = 0 THEN Empty
    ELSE IF Len(parts) = 1 THEN parts[1]
    ELSE parts[1] \o Comma \o JoinComma(Tail(parts))

(***************************************************************************)
(* The strconv package, base 10.  The strings of the model have at most   *)
(* five digits, so the range errors of the 64-bit parsers do not arise.   *)
(***************************************************************************)
AllDigits(s) == \A i \in 1..Len(s) : s[i] \in Digits

RECURSIVE DigitsVal(_, _)
DigitsVal(s, acc) ==
    IF s = Empty THEN acc ELSE DigitsVal(Tail(s), acc * 10 + DigitVal(Head(s)))

\* strconv.ParseUint(s, 10, 64): digits only, no sign.
ParseUint(s) ==
    IF s # Empty /\ AllDigits(s) THEN [ok |-> TRUE, val |-> DigitsVal(s, 0)]
    ELSE [ok |-> FALSE, val |-> 0]

\* strconv.ParseInt(s, 10, 64): an optional sign, then digits.
ParseInt(s) ==
    IF s = Empty THEN [ok |-> FALSE, val |-> 0]
    ELSE LET neg == Head(s) = "-"
             body == IF Head(s) \in {"+", "-"} THEN Tail(s) ELSE s
             u == ParseUint(body)
         IN  IF u.ok THEN [ok |-> TRUE, val |-> IF neg THEN 0 - u.val ELSE u.val]
             ELSE [ok |-> FALSE, val |-> 0]

\* strconv.Atoi(s) is ParseInt(s, 10, 0) on the platform integer.
Atoi(s) == ParseInt(s)

(***************************************************************************)
(* Errors.  An error is what its message carries: the message kind, the   *)
(* keys and the source names it prints, the text it quotes and the        *)
(* numbers it prints, and the message of the error it wraps.  errors.Join *)
(* of a list is the list itself.                                           *)
(***************************************************************************)
MkErr(kind, keys, srcs, text, nums) ==
    [kind |-> kind, cause |-> "", keys |-> keys, srcs |-> srcs, text |-> text,
     nums |-> nums]

\* The error of a failed coercion without the name of the source.
SettingErrNoSource(key, sourceName, cause, text) ==
    [kind |-> "error setting", cause |-> cause, keys |-> <<key>>,
     srcs |-> <<"">>, text |-> text, nums |-> << >>]

\* fmt.Errorf("error setting %s (source %s): %w", key, sourceName, err)
SettingErr(key, sourceName, cause, text) ==
    [kind |-> "error setting", cause |-> cause, keys |-> <<key>>,
     srcs |-> <<sourceName>>, text |-> text, nums |-> << >>]

(***************************************************************************)
(* tagOptions and the tag parser.                                          *)
(***************************************************************************)
ZeroOpts(key) ==
    [key |-> key, fieldIdx |-> 0, required |-> FALSE, defaultValue |-> Empty,
     min |-> << >>, max |-> << >>, minLen |-> << >>, maxLen |-> << >>]

parseMinMax(prefix, part) == ParseInt(TrimPrefix(part, prefix))

parseLen(prefix, part) == Atoi(TrimPrefix(part, prefix))

\* A default whose value is trimmed as well.
defaultOfTrimmed(part) == TrimSpace(TrimPrefix(part, sDefaultEq))

\* opts.defaultValue = strings.TrimPrefix(part, "default=") (211), part the
\* trimmed segment.
defaultOf(part) == TrimPrefix(part, sDefaultEq)

\* One iteration of the switch of parseTag on the segment raw; st is
\* [opts, warnings].
parseTagPart(st, raw) ==
    LET part == TrimSpace(raw)
        opts == st.opts
    IN  CASE part = sRequired ->
               [st EXCEPT !.opts = [opts EXCEPT !.required = TRUE]]
          [] part # sRequired /\ HasPrefix(part, sDefaultEq) ->
               [st EXCEPT !.opts =
                    [opts EXCEPT !.defaultValue = defaultOf(part)]]
          [] HasPrefix(part, sMinEq) ->
               LET r == parseMinMax(sMinEq, part)
               IN  IF ~r.ok
                   THEN [st EXCEPT !.warnings = Append(@,
                            MkErr("invalid minimum value", << >>, << >>,
                                  TrimPrefix(part, sMinEq), << >>))]
                   ELSE [st EXCEPT !.opts = [opts EXCEPT !.min = <<r.val>>]]
          [] HasPrefix(part, sMaxEq) ->
               LET r == parseMinMax(sMaxEq, part)
               IN  IF ~r.ok
                   THEN [st EXCEPT !.warnings = Append(@,
                            MkErr("invalid maximum value", << >>, << >>,
                                  TrimPrefix(part, sMaxEq), << >>))]
                   ELSE [st EXCEPT !.opts = [opts EXCEPT !.max = <<r.val>>]]
          [] HasPrefix(part, sMinLenEq) ->
               LET r == parseLen(sMinLenEq, part)
               IN  IF ~r.ok
                   THEN [st EXCEPT !.warnings = Append(@,
                            MkErr("invalid min length value", << >>, << >>,
                                  TrimPrefix(part, sMinLenEq), << >>))]
                   ELSE [st EXCEPT !.opts = [opts EXCEPT !.minLen = <<r.val>>]]
          [] HasPrefix(part, sMaxLenEq) ->
               LET r == parseLen(sMaxLenEq, part)
               IN  IF ~r.ok
                   THEN [st EXCEPT !.warnings = Append(@,
                            MkErr("invalid max length value", << >>, << >>,
                                  TrimPrefix(part, sMaxLenEq), << >>))]
                   ELSE [st EXCEPT !.opts = [opts EXCEPT !.maxLen = <<r.val>>]]
          [] OTHER -> st

\* A tag parser that stops at the first malformed option.
RECURSIVE parseTagLoopStop(_, _, _)
parseTagLoopStop(st, parts, i) ==
    IF i > Len(parts) \/ Len(st.warnings) > 0 THEN st
    ELSE parseTagLoopStop(parseTagPart(st, parts[i]), parts, i + 1)

RECURSIVE parseTagLoop(_, _, _)
parseTagLoop(st, parts, i) ==
    IF i > Len(parts) THEN st
    ELSE parseTagLoop(parseTagPart(st, parts[i]), parts, i + 1)

\* parseTag(tag): [opts, warnings].
parseTag(tag) ==
    LET parts == Split(tag)
    IN  parseTagLoop([opts |-> ZeroOpts(parts[1]), warnings |-> << >>], parts, 2)

(***************************************************************************)
(* strconv.ParseBool, strconv.ParseFloat and time.ParseDuration.           *)
(***************************************************************************)
BoolTrue == { <<"1">>, <<"t">>, <<"T">>, <<"T","R","U","E">>, <<"t","r","u","e">>,
              <<"T","r","u","e">> }
BoolFalse == { <<"0">>, <<"f">>, <<"F">>, <<"F","A","L","S","E">>,
               <<"f","a","l","s","e">>, <<"F","a","l","s","e">> }

ParseBool(s) ==
    IF s \in BoolTrue THEN [ok |-> TRUE, val |-> TRUE]
    ELSE IF s \in BoolFalse THEN [ok |-> TRUE, val |-> FALSE]
    ELSE [ok |-> FALSE, val |-> FALSE]

RECURSIVE Pow10(_)
Pow10(n) == IF n = 0 THEN 1 ELSE 10 * Pow10(n - 1)

\* The longest prefix of s made of digits.
RECURSIVE LeadingDigits(_)
LeadingDigits(s) ==
    IF s # Empty /\ Head(s) \in Digits THEN <<Head(s)>> \o LeadingDigits(Tail(s))
    ELSE Empty

\* A float is [m, e], the number m / 10^e, without trailing zeros in m.
RECURSIVE NormFloat(_)
NormFloat(f) ==
    IF f.m = 0 THEN [m |-> 0, e |-> 0]
    ELSE IF f.e > 0 /\ f.m % 10 = 0 THEN NormFloat([m |-> f.m \div 10, e |-> f.e - 1])
    ELSE f

\* strconv.ParseFloat(s, 64) on decimal literals: sign, digits, '.', digits.
\* (The model has no exponent, hexadecimal, infinity or NaN literals.)
ParseFloat(s) ==
    LET neg == s # Empty /\ Head(s) = "-"
        body == IF s # Empty /\ Head(s) \in {"+", "-"} THEN Tail(s) ELSE s
        ip == LeadingDigits(body)
        rest == Tail2(body, Len(ip))
        hasDot == rest # Empty /\ Head(rest) = "."
        fp == IF hasDot THEN LeadingDigits(Tail(rest)) ELSE Empty
        after == IF hasDot THEN Tail2(rest, 1 + Len(fp)) ELSE rest
        mag == DigitsVal(ip \o fp, 0)
    IN  IF Len(ip) + Len(fp) = 0 \/ after # Empty
        THEN [ok |-> FALSE, val |-> [m |-> 0, e |-> 0]]
        ELSE [ok |-> TRUE,
              val |-> NormFloat([m |-> IF neg THEN 0 - mag ELSE mag, e |-> Len(fp)])]

\* The longest prefix of s without '.' and digits: the unit of a duration.
RECURSIVE LeadingUnit(_)
LeadingUnit(s) ==
    IF s # Empty /\ Head(s) # "." /\ Head(s) \notin Digits
    THEN <<Head(s)>> \o LeadingUnit(Tail(s))
    ELSE Empty

UnitNames == { <<"n","s">>, <<"u","s">>, <<"m","s">>, <<"s">>, <<"m">>, <<"h">> }

\* unitMap of package time, in nanoseconds.
UnitNanos(u) == CASE u = <<"n","s">> -> 1
                  [] u = <<"u","s">> -> 1000
                  [] u = <<"m","s">> -> 1000000
                  [] u = <<"s">> -> 1000000000
                  [] u = <<"m">> -> 60 * 1000000000
                  [] u = <<"h">> -> 3600 * 1000000000

\* The groups "<digits>[.<digits>]<unit>" of a duration, summed.
RECURSIVE DurationGroups(_, _)
DurationGroups(s, acc) ==
    IF s = Empty THEN [ok |-> TRUE, val |-> acc]
    ELSE LET ip == LeadingDigits(s)
             rest == Tail2(s, Len(ip))
             hasDot == rest # Empty /\ Head(rest) = "."
             fp == IF hasDot THEN LeadingDigits(Tail(rest)) ELSE Empty
             after == IF hasDot THEN Tail2(rest, 1 + Len(fp)) ELSE rest
             unit == LeadingUnit(after)
             scale == Pow10(Len(fp))
         IN  IF Len(ip) + Len(fp) = 0 \/ unit \notin UnitNames
             THEN [ok |-> FALSE, val |-> 0]
             ELSE LET n == UnitNanos(unit)
                      whole == DigitsVal(ip, 0) * n
                      frac == IF n % scale = 0 THEN DigitsVal(fp, 0) * (n \div scale)
                              ELSE (DigitsVal(fp, 0) * n) \div scale
                  IN  DurationGroups(Tail2(after, Len(unit)), acc + whole + frac)

\* time.ParseDuration(s), in nanoseconds.  (The durations of the model stay
\* below two seconds, so the overflow error does not arise.)
ParseDuration(s) ==
    LET neg == s # Empty /\ Head(s) = "-"
        body == IF s # Empty /\ Head(s) \in {"+", "-"} THEN Tail(s) ELSE s
    IN  IF body = <<"0">> THEN [ok |-> TRUE, val |-> 0]
        ELSE IF body = Empty THEN [ok |-> FALSE, val |-> 0]
        ELSE LET r == DurationGroups(body, 0)
             IN  IF r.ok THEN [ok |-> TRUE, val |-> IF neg THEN 0 - r.val ELSE r.val]
                 ELSE [ok |-> FALSE, val |-> 0]

(***************************************************************************)
(* Field types, reflect.Kind and the zero value of a type.                 *)
(***************************************************************************)
IntTypes == {"int", "int8", "int16", "int32", "int64", "Duration"}
UintTypes == {"uint", "uint8", "uint16", "uint32", "uint64"}
FloatTypes == {"float32", "float64"}

\* reflect.Kind of a type: time.Duration is of kind int64.
Kind(t) == IF t = "Duration" THEN "int64" ELSE t

IntKinds == {"int", "int8", "int16", "int32", "int64"}
UintKinds == UintTypes
FloatKinds == FloatTypes

ZeroValue(t) ==
    CASE t = "string" -> Empty
      [] t \in IntTypes \cup UintTypes -> 0
      [] t \in FloatTypes -> [m |-> 0, e |-> 0]
      [] t = "bool" -> FALSE
      [] OTHER -> "nil"

\* reflect.Value.SetInt and SetUint store the value converted to the width
\* of the field.  (The numbers of the model fit 32 bits, so that only the
\* 8-bit and 16-bit kinds truncate.)
SetInt(k, x) ==
    CASE k = "int8" -> ((x + 128) % 256) - 128
      [] k = "int16" -> ((x + 32768) % 65536) - 32768
      [] OTHER -> x

SetUint(k, x) ==
    CASE k = "uint8" -> x % 256
      [] k = "uint16" -> x % 65536
      [] OTHER -> x

(***************************************************************************)
(* setField(value, strVal) for a field of type t: [ok, val, err], err the *)
(* message of the error returned when not ok.                              *)
(***************************************************************************)
SetOk(v) == [ok |-> TRUE, val |-> <<v>>, err |-> ""]
SetErr(msg) == [ok |-> FALSE, val |-> << >>, err |-> msg]

\* A setField that accepts a field of any other kind and leaves it as it is.
setFieldAnyKind(t, strVal) ==
    CASE Kind(t) = "string" -> SetOk(strVal)
      [] Kind(t) \in IntKinds ->
           IF t = "Duration"
           THEN LET d == ParseDuration(strVal)
                IN  IF ~d.ok THEN SetErr("invalid duration")
                    ELSE SetOk(SetInt(Kind(t), d.val))
           ELSE LET r == ParseInt(strVal)
                IN  IF ~r.ok THEN SetErr("invalid integer")
                    ELSE SetOk(SetInt(Kind(t), r.val))
      [] Kind(t) \in UintKinds ->
           LET r == ParseUint(strVal)
           IN  IF ~r.ok THEN SetErr("invalid unsigned integer")
               ELSE SetOk(SetUint(Kind(t), r.val))
      [] Kind(t) \in FloatKinds ->
           LET r == ParseFloat(strVal)
           IN  IF ~r.ok THEN SetErr("invalid float") ELSE SetOk(r.val)
      [] Kind(t) = "bool" ->
           LET r == ParseBool(strVal)
           IN  IF ~r.ok THEN SetErr("invalid boolean") ELSE SetOk(r.val)
      [] OTHER -> SetOk(ZeroValue(t))

setField(t, strVal) ==
    CASE Kind(t) = "string" -> SetOk(strVal)
      [] Kind(t) \in IntKinds ->
           IF t = "Duration"
           THEN LET d == ParseDuration(strVal)
                IN  IF ~d.ok THEN SetErr("invalid duration")
                    ELSE SetOk(SetInt(Kind(t), d.val))
           ELSE LET r == ParseInt(strVal)
                IN  IF ~r.ok THEN SetErr("invalid integer")
                    ELSE SetOk(SetInt(Kind(t), r.val))
      [] Kind(t) \in UintKinds ->
           LET r == ParseUint(strVal)
           IN  IF ~r.ok THEN SetErr("invalid unsigned integer")
               ELSE SetOk(SetUint(Kind(t), r.val))
      [] Kind(t) \in FloatKinds ->
           LET r == ParseFloat(strVal)
           IN  IF ~r.ok THEN SetErr("invalid float") ELSE SetOk(r.val)
      [] Kind(t) = "bool" ->
           LET r == ParseBool(strVal)
           IN  IF ~r.ok THEN SetErr("invalid boolean") ELSE SetOk(r.val)
      [] OTHER -> SetErr("unsupported field type")

(***************************************************************************)
(* validateField(field, opts) for a field of type t holding v: the error  *)
(* returned, as a pointer (empty when nil).                                *)
(***************************************************************************)
\* An unsigned 64-bit number is written [w, n] for w * 2^64 + n, with w 0
\* or 1 and n a signed 64-bit number, negative only when w is 1: 2^64 is
\* beyond the integers the checker computes with.
\* A conversion that keeps the mathematical value of a negative number.
Uint64Exact(b) == [w |-> 0, n |-> b]

\* uint64(b) for a signed 64-bit b: b itself, and 2^64 + b for a negative b.
Uint64(b) == [w |-> IF b < 0 THEN 1 ELSE 0, n |-> b]

\* x < y for unsigned 64-bit numbers.
U64Less(x, y) == x.w < y.w \/ (x.w = y.w /\ x.n < y.n)

\* val < uint64(b) and val > uint64(b) (375, 379) for an unsigned val,
\* which the conversion leaves as it is, and a signed 64-bit b.
UintLess(a, b) == U64Less(Uint64(a), Uint64(b))
UintGreater(a, b) == U64Less(Uint64(b), Uint64(a))

\* val < float64(b) and val > float64(b) for a float val = m / 10^e.
FloatLess(val, b) == val.m < b * Pow10(val.e)
FloatGreater(val, b) == val.m > b * Pow10(val.e)

\* The case reflect.String (350-359), with bounds that exclude the bound.
validateStringExclusive(v, opts) ==
    IF opts.minLen # << >> /\ Len(v) <= opts.minLen[1]
    THEN <<MkErr("string length less than minimum", << >>, << >>, Empty,
                 <<Len(v), opts.minLen[1]>>)>>
    ELSE IF opts.maxLen # << >> /\ Len(v) >= opts.maxLen[1]
    THEN <<MkErr("string length exceeds maximum", << >>, << >>, Empty,
                 <<Len(v), opts.maxLen[1]>>)>>
    ELSE << >>

\* The case reflect.String (350-359).
validateString(v, opts) ==
    IF opts.minLen # << >> /\ Len(v) < opts.minLen[1]
    THEN <<MkErr("string length less than minimum", << >>, << >>, Empty,
                 <<Len(v), opts.minLen[1]>>)>>
    ELSE IF opts.maxLen # << >> /\ Len(v) > opts.maxLen[1]
    THEN <<MkErr("string length exceeds maximum", << >>, << >>, Empty,
                 <<Len(v), opts.maxLen[1]>>)>>
    ELSE << >>

\* The case of the signed kinds with both bounds reported.
validateIntBoth(v, opts) ==
    (IF opts.min # << >> /\ v < opts.min[1]
     THEN <<MkErr("integer value is less than minimum", << >>, << >>, Empty,
                  <<v, opts.min[1]>>)>>
     ELSE << >>)
      \o (IF opts.max # << >> /\ v > opts.max[1]
          THEN <<MkErr("integer value exceeds maximum", << >>, << >>, Empty,
                       <<v, opts.max[1]>>)>>
          ELSE << >>)

\* The case of the signed kinds (361-370).
validateInt(v, opts) ==
    IF opts.min # << >> /\ v < opts.min[1]
    THEN <<MkErr("integer value is less than minimum", << >>, << >>, Empty,
                 <<v, opts.min[1]>>)>>
    ELSE IF opts.max # << >> /\ v > opts.max[1]
    THEN <<MkErr("integer value exceeds maximum", << >>, << >>, Empty,
                 <<v, opts.max[1]>>)>>
    ELSE << >>

\* The case of the unsigned kinds (372-381).
validateUint(v, opts) ==
    IF opts.min # << >> /\ UintLess(v, opts.min[1])
    THEN <<MkErr("unsigned integer value is less than minimum", << >>, << >>,
                 Empty, <<v, opts.min[1]>>)>>
    ELSE IF opts.max # << >> /\ UintGreater(v, opts.max[1])
    THEN <<MkErr("unsigned integer value exceeds maximum", << >>, << >>,
                 Empty, <<v, opts.max[1]>>)>>
    ELSE << >>

\* The case of the float kinds (383-392).
validateFloat(v, opts) ==
    IF opts.min # << >> /\ FloatLess(v, opts.min[1])
    THEN <<MkErr("float value is less than minimum", << >>, << >>, Empty,
                 <<v.m, v.e, opts.min[1]>>)>>
    ELSE IF opts.max # << >> /\ FloatGreater(v, opts.max[1])
    THEN <<MkErr("float value exceeds maximum", << >>, << >>, Empty,
                 <<v.m, v.e, opts.max[1]>>)>>
    ELSE << >>

validateField(t, v, opts) ==
    CASE Kind(t) = "string" -> validateString(v, opts)
      [] Kind(t) \in IntKinds -> validateInt(v, opts)
      [] Kind(t) \in UintKinds -> validateUint(v, opts)
      [] Kind(t) \in FloatKinds -> validateFloat(v, opts)
      [] OTHER -> << >>

(***************************************************************************)
(* Sources.  A source is the mock source [SourceName, Values, Err]: Values *)
(* is the map (a function on the keys present), Err tells Err != nil.      *)
(***************************************************************************)
\* A lookup that never finds the empty key.
GetValueKeyed(src, key) ==
    IF src.Err THEN [val |-> Empty, found |-> FALSE, err |-> TRUE]
    ELSE IF key # Empty /\ key \in DOMAIN src.Values
         THEN [val |-> src.Values[key], found |-> TRUE, err |-> FALSE]
         ELSE [val |-> Empty, found |-> FALSE, err |-> FALSE]

\* MockSource.GetValue(key): [val, found, err].
GetValue(src, key) ==
    IF src.Err THEN [val |-> Empty, found |-> FALSE, err |-> TRUE]
    ELSE IF key \in DOMAIN src.Values
         THEN [val |-> src.Values[key], found |-> TRUE, err |-> FALSE]
         ELSE [val |-> Empty, found |-> FALSE, err |-> FALSE]

(***************************************************************************)
(* The command-line source (sources/cli.go).  Its GetValue is a lookup in  *)
(* the map flags and returns no error: the source is the record            *)
(* [SourceName |-> "cli", Values |-> flags, Err |-> FALSE].                *)
(***************************************************************************)
Dash == <<"-">>

\* strings.Index(s, "=") from position i on, 0 when there is none.
RECURSIVE IndexEq(_, _)
IndexEq(s, i) ==
    IF i > Len(s) THEN 0 ELSE IF s[i] = "=" THEN i ELSE IndexEq(s, i + 1)

\* strings.SplitN(s, "=", 2): s alone when it holds no "=", else the text
\* before the first "=" and the text after it.
SplitN2(s) ==
    IF IndexEq(s, 1) = 0 THEN <<s>>
    ELSE <<SubSeq(s, 1, IndexEq(s, 1) - 1), Tail2(s, IndexEq(s, 1))>>

\* An assignment that keeps the value a key already has.
MapSetKeep(m, k, v) ==
    [x \in DOMAIN m \cup {k} |-> IF x \in DOMAIN m THEN m[x] ELSE v]

\* s.flags[parts[0]] = parts[1] (36).
MapSet(m, k, v) == [x \in DOMAIN m \cup {k} |-> IF x = k THEN v ELSE m[x]]

\* strings.TrimPrefix(arg, "--"), then strings.TrimPrefix(trimmed, "-")
\* (32-33).
TrimDashes(arg) == TrimPrefix(TrimPrefix(arg, Dash \o Dash), Dash)

\* The body of the loop (35-37), parts the result of SplitN.
SetFlag(flags, parts) ==
    IF Len(parts) = 2 THEN MapSet(flags, parts[1], parts[2]) ELSE flags

\* The loop of FromCLIArgs (31-38) over the arguments a, from the map flags.
RECURSIVE ParseArgs(_, _)
ParseArgs(a, flags) ==
    IF a = << >> THEN flags
    ELSE ParseArgs(Tail(a), SetFlag(flags, SplitN2(TrimDashes(Head(a)))))

\* FromCLIArgs(a), a the arguments (os.Args[1:] when the caller passes nil).
FromCLIArgs(a) ==
    [SourceName |-> "cli", Err |-> FALSE, Values |-> ParseArgs(a, << >>)]

\* The events of the logger of getValueFromSources.  An event of zerolog is
\* written when the chain that builds it ends with Msg, Msgf or Send, if its
\* level is enabled; the base logger has the global level, debug unless the
\* program has set another.
LogEvent(level, source, key, msg) ==
    [level |-> level, source |-> source, key |-> key, msg |-> msg]

\* logger.Debug().Str("source", ...).Msgf("found value %s", val) (286).
FoundEvent(source, key, val) == LogEvent("debug", source, key, val)

\* A warning that is sent.
WarnEventSent(source, key) == <<LogEvent("warn", source, key, Empty)>>

\* logger.Warn().Str("source", ...).Err(err) (282): the chain ends with Err,
\* the event is never sent, nothing is written.
WarnEvent(source, key) == << >>

\* A lookup in which the last source that has the key wins.
RECURSIVE getValueFromLast(_, _, _)
getValueFromLast(srcs, key, i) ==
    IF i > Len(srcs) THEN [val |-> Empty, name |-> "", found |-> FALSE, calls |-> << >>,
               log |-> << >>]
    ELSE LET r == GetValue(srcs[i], key)
             n == getValueFromLast(srcs, key, i + 1)
         IN  IF n.found \/ r.err \/ ~r.found THEN [n EXCEPT !.calls = <<i>> \o @]
             ELSE [val |-> r.val, name |-> srcs[i].SourceName, found |-> TRUE,
                   calls |-> <<i>> \o n.calls,
                   log |-> <<FoundEvent(srcs[i].SourceName, key, r.val)>>]

\* A lookup that gives up at the first source that returns an error.
RECURSIVE getValueFromAbort(_, _, _)
getValueFromAbort(srcs, key, i) ==
    IF i > Len(srcs) THEN [val |-> Empty, name |-> "", found |-> FALSE, calls |-> << >>,
               log |-> << >>]
    ELSE LET r == GetValue(srcs[i], key)
         IN  IF r.err
             THEN [val |-> Empty, name |-> "", found |-> FALSE, calls |-> <<i>>,
                   log |-> << >>]
             ELSE IF r.found
             THEN [val |-> r.val, name |-> srcs[i].SourceName, found |-> TRUE,
                   calls |-> <<i>>,
                   log |-> <<FoundEvent(srcs[i].SourceName, key, r.val)>>]
             ELSE LET n == getValueFromAbort(srcs, key, i + 1)
                  IN  [n EXCEPT !.calls = <<i>> \o @]

\* A lookup that asks the source that answers a second time.
RECURSIVE getValueFromRetry(_, _, _)
getValueFromRetry(srcs, key, i) ==
    IF i > Len(srcs) THEN [val |-> Empty, name |-> "", found |-> FALSE, calls |-> << >>,
               log |-> << >>]
    ELSE LET r == GetValue(srcs[i], key)
         IN  IF r.err
             THEN LET n == getValueFromRetry(srcs, key, i + 1)
                  IN  [n EXCEPT !.calls = <<i>> \o @]
             ELSE IF r.found
             THEN [val |-> r.val, name |-> srcs[i].SourceName, found |-> TRUE,
                   calls |-> <<i, i>>,
                   log |-> <<FoundEvent(srcs[i].SourceName, key, r.val)>>]
             ELSE LET n == getValueFromRetry(srcs, key, i + 1)
                  IN  [n EXCEPT !.calls = <<i>> \o @]

\* getValueFromSources(key) from source i on: [val, name, found, calls,
\* log], calls the GetValue calls made, as the indices of the sources, in
\* order, and log the events the logger has written.
RECURSIVE getValueFrom(_, _, _)
getValueFrom(srcs, key, i) ==
    IF i > Len(srcs) THEN [val |-> Empty, name |-> "", found |-> FALSE, calls |-> << >>,
               log |-> << >>]
    ELSE LET r == GetValue(srcs[i], key)
         IN  IF r.err
             THEN LET n == getValueFrom(srcs, key, i + 1)
                  IN  [n EXCEPT !.calls = <<i>> \o @,
                                !.log = WarnEvent(srcs[i].SourceName, key) \o @]
             ELSE IF r.found
             THEN [val |-> r.val, name |-> srcs[i].SourceName, found |-> TRUE,
                   calls |-> <<i>>,
                   log |-> <<FoundEvent(srcs[i].SourceName, key, r.val)>>]
             ELSE LET n == getValueFrom(srcs, key, i + 1)
                  IN  [n EXCEPT !.calls = <<i>> \o @]

getValueFromSources(srcs, key) == getValueFrom(srcs, key, 1)

(***************************************************************************)
(* The record type T.  T is [kind, fields]; a field is [type, exported,   *)
(* tag], tag the struct tag as a function from tag keys to tag strings.    *)
(***************************************************************************)
\* reflect.StructTag.Get(key): the empty string when the key is absent.
TagGet(f, key) == IF key \in DOMAIN f.tag THEN f.tag[key] ELSE Empty

\* A tag pass that does not skip the fields that cannot be set.
RECURSIVE parseAllTagsFromUnexported(_, _, _)
parseAllTagsFromUnexported(fields, tagKey, idx) ==
    IF idx > Len(fields) THEN [opts |-> << >>, errs |-> << >>]
    ELSE LET f == fields[idx]
             rest == parseAllTagsFromUnexported(fields, tagKey, idx + 1)
             tag == TagGet(f, tagKey)
         IN  IF tag = Empty THEN rest
             ELSE LET r == parseTag(tag)
                  IN  IF Len(r.warnings) > 0
                      THEN [rest EXCEPT !.errs = r.warnings \o @]
                      ELSE [rest EXCEPT
                              !.opts = <<[r.opts EXCEPT !.fieldIdx = idx]>> \o @]

\* parseAllTags from field idx on: [opts, errs], the constraints of the
\* fields whose tag parsed and the errors of the others.
RECURSIVE parseAllTagsFrom(_, _, _)
parseAllTagsFrom(fields, tagKey, idx) ==
    IF idx > Len(fields) THEN [opts |-> << >>, errs |-> << >>]
    ELSE LET f == fields[idx]
             rest == parseAllTagsFrom(fields, tagKey, idx + 1)
             tag == TagGet(f, tagKey)
         IN  IF ~f.exported THEN rest
             ELSE IF tag = Empty THEN rest
             ELSE LET r == parseTag(tag)
                  IN  IF Len(r.warnings) > 0
                      THEN [rest EXCEPT !.errs = r.warnings \o @]
                      ELSE [rest EXCEPT
                              !.opts = <<[r.opts EXCEPT !.fieldIdx = idx]>> \o @]

\* A tag pass that drops the errors and keeps the tags that parsed.
parseAllTagsLenient(fields, tagKey) ==
    [opts |-> parseAllTagsFrom(fields, tagKey, 1).opts, err |-> << >>]

\* parseAllTags: [opts, err], err the joined error (empty when nil).
parseAllTags(fields, tagKey) ==
    LET r == parseAllTagsFrom(fields, tagKey, 1)
    IN  IF Len(r.errs) > 0 THEN [opts |-> << >>, err |-> r.errs]
        ELSE [opts |-> r.opts, err |-> << >>]

(***************************************************************************)
(* One iteration of the loop of Load.                                      *)
(***************************************************************************)
\* A resolution without the check of required.
ResolveNoRequired(opts, r) ==
    IF ~r.found /\ opts.defaultValue # Empty
    THEN [st |-> "value", value |-> opts.defaultValue, sourceName |-> r.name]
    ELSE IF ~r.found
    THEN [st |-> "skip", value |-> Empty, sourceName |-> r.name]
    ELSE [st |-> "value", value |-> r.val, sourceName |-> r.name]

\* A resolution that applies the default before it checks required.
ResolveDefaultFirst(opts, r) ==
    IF ~r.found /\ opts.defaultValue # Empty
    THEN [st |-> "value", value |-> opts.defaultValue, sourceName |-> r.name]
    ELSE IF ~r.found /\ opts.required
    THEN [st |-> "missing", value |-> Empty, sourceName |-> r.name]
    ELSE IF ~r.found
    THEN [st |-> "skip", value |-> Empty, sourceName |-> r.name]
    ELSE [st |-> "value", value |-> r.val, sourceName |-> r.name]

\* A resolution in which a default replaces the value of the sources.
ResolveDefaultOverrides(opts, r) ==
    IF ~r.found /\ opts.required
    THEN [st |-> "missing", value |-> Empty, sourceName |-> r.name]
    ELSE IF opts.defaultValue # Empty
    THEN [st |-> "value", value |-> opts.defaultValue, sourceName |-> r.name]
    ELSE IF ~r.found
    THEN [st |-> "skip", value |-> Empty, sourceName |-> r.name]
    ELSE [st |-> "value", value |-> r.val, sourceName |-> r.name]

\* A resolution that takes the empty string for a value that was not found.
ResolveEmptyValue(opts, r) ==
    IF ~r.found /\ opts.required
    THEN [st |-> "missing", value |-> Empty, sourceName |-> r.name]
    ELSE IF ~r.found /\ opts.defaultValue # Empty
    THEN [st |-> "value", value |-> opts.defaultValue, sourceName |-> r.name]
    ELSE [st |-> "value", value |-> r.val, sourceName |-> r.name]

\* A resolution that takes a value found empty for a value not found.
ResolveNonEmpty(opts, r) ==
    IF (~r.found \/ r.val = Empty) /\ opts.required
    THEN [st |-> "missing", value |-> Empty, sourceName |-> r.name]
    ELSE IF (~r.found \/ r.val = Empty) /\ opts.defaultValue # Empty
    THEN [st |-> "value", value |-> opts.defaultValue, sourceName |-> r.name]
    ELSE IF ~r.found \/ r.val = Empty
    THEN [st |-> "skip", value |-> Empty, sourceName |-> r.name]
    ELSE [st |-> "value", value |-> r.val, sourceName |-> r.name]

\* What the iteration does with the answer r of getValueFromSources:
\* "missing" (required and not found), "skip" (nothing to set) or "value".
Resolve(opts, r) ==
    IF ~r.found /\ opts.required
    THEN [st |-> "missing", value |-> Empty, sourceName |-> r.name]
    ELSE IF ~r.found /\ opts.defaultValue # Empty
    THEN [st |-> "value", value |-> opts.defaultValue, sourceName |-> r.name]
    ELSE IF ~r.found
    THEN [st |-> "skip", value |-> Empty, sourceName |-> r.name]
    ELSE [st |-> "value", value |-> r.val, sourceName |-> r.name]

\* An iteration that does not validate a value that is the default.
LoadIterationDefaultUnchecked(opts, srcs, t) ==
    LET r == getValueFromSources(srcs, opts.key)
        res == Resolve(opts, r)
        base == [calls |-> r.calls, log |-> r.log, errs |-> << >>, val |-> << >>,
                 coerced |-> FALSE, validated |-> FALSE,
                 got |-> [key |-> opts.key, value |-> r.val,
                          sourceName |-> r.name, found |-> r.found]]
    IN  CASE res.st = "missing" ->
               [base EXCEPT !.errs = <<MkErr("required value not found",
                                             <<opts.key>>, << >>, Empty, << >>)>>]
          [] res.st = "skip" -> base
          [] OTHER ->
               LET set == setField(t, res.value)
               IN  IF ~set.ok
                   THEN [base EXCEPT !.coerced = TRUE,
                                     !.errs = <<SettingErr(opts.key, res.sourceName,
                                                           set.err, res.value)>>]
                   ELSE IF ~r.found
                   THEN [base EXCEPT !.coerced = TRUE, !.val = set.val]
                   ELSE [base EXCEPT !.coerced = TRUE, !.validated = TRUE,
                                     !.val = set.val,
                                     !.errs = validateField(t, set.val[1], opts)]

\* The iteration for the constraint opts of a field of type t:
\* calls: the sources asked, in order; errs: the error appended, if any;
\* val: the value assigned to the field, if any; coerced, validated:
\* whether setField and validateField were called; got: the answer of
\* getValueFromSources (line 116); log: the events it wrote.
LoadIteration(opts, srcs, t) ==
    LET r == getValueFromSources(srcs, opts.key)
        res == Resolve(opts, r)
        base == [calls |-> r.calls, log |-> r.log, errs |-> << >>, val |-> << >>,
                 coerced |-> FALSE, validated |-> FALSE,
                 got |-> [key |-> opts.key, value |-> r.val,
                          sourceName |-> r.name, found |-> r.found]]
    IN  CASE res.st = "missing" ->
               [base EXCEPT !.errs = <<MkErr("required value not found",
                                             <<opts.key>>, << >>, Empty, << >>)>>]
          [] res.st = "skip" -> base
          [] OTHER ->
               LET set == setField(t, res.value)
               IN  IF ~set.ok
                   THEN [base EXCEPT !.coerced = TRUE,
                                     !.errs = <<SettingErr(opts.key, res.sourceName,
                                                           set.err, res.value)>>]
                   ELSE [base EXCEPT !.coerced = TRUE, !.validated = TRUE,
                                     !.val = set.val,
                                     !.errs = validateField(t, set.val[1], opts)]

(***************************************************************************)
(* State.                                                                  *)
(***************************************************************************)
VARIABLES
    T,                 \* the type parameter of New and Load
    config,            \* the LoaderConfig given to New
    pc,                \* "start", "newfailed", "ready", "loop", "done"
    loader,            \* the *Loader returned by New (empty: nil)
    newErr,            \* the error returned by New (empty: nil)
    cfg,               \* the local cfg of Load: the values of the fields
    tagOpts,           \* the local tagOpts of Load
    i,                 \* the position of the loop of Load in tagOpts
    validationErrors,  \* the local validationErrors of Load
    calls,             \* the GetValue calls made so far: [src, key]
    coerced,           \* the field indices setField was called for
    validated,         \* the field indices validateField was called for
    resolved,          \* the answers of getValueFromSources, one an iteration
    logged,            \* the events written by the logger of getValueFromSources
    args,              \* the arguments FromCLIArgs is yet to be called with
    loads,             \* the frames of the Load calls that run side by side
    heap,              \* the records these calls have allocated, by address
    ret                \* what Load returned: [cfg, err], both pointers

vars == <<T, config, pc, loader, newErr, cfg, tagOpts, i, validationErrors,
          calls, coerced, validated, resolved, logged, args, loads, heap, ret>>

(***************************************************************************)
(* New (source.go, 62-92).                                                 *)
(***************************************************************************)
\* New without the check of the kind of T.
NewLoaderAnyKind(t, c) ==
    IF Len(c.Sources) = 0
    THEN [loader |-> << >>, err |-> <<"at least one source is required">>]
    ELSE [loader |-> <<[tagKey |-> IF c.TagKey = "" THEN defaultTagKey
                                   ELSE c.TagKey,
                        sources |-> c.Sources]>>,
          err |-> << >>]

\* What New returns for the type t and the configuration c: [loader, err].
NewLoader(t, c) ==
    IF Len(c.Sources) = 0
    THEN [loader |-> << >>, err |-> <<"at least one source is required">>]
    ELSE IF t.kind # "struct"
    THEN [loader |-> << >>, err |-> <<"invalid type (must be struct)">>]
    ELSE [loader |-> <<[tagKey |-> IF c.TagKey = "" THEN defaultTagKey
                                   ELSE c.TagKey,
                        sources |-> c.Sources]>>,
          err |-> << >>]

New ==
    /\ pc = "start"
    /\ LET r == NewLoader(T, config)
       IN  /\ loader' = r.loader
           /\ newErr' = r.err
           /\ pc' = IF r.loader = << >> THEN "newfailed" ELSE "ready"
    /\ UNCHANGED <<T, config, args, loads, heap, cfg, tagOpts, i,
                   validationErrors, calls, coerced, validated, resolved,
                   logged, ret>>

(***************************************************************************)
(* Load (source.go, 100-148), in steps: the tag pass, one step for each    *)
(* iteration of the loop, and the return.                                  *)
(***************************************************************************)
LoadParse ==
    /\ pc = "ready"
    /\ cfg' = [n \in 1..Len(T.fields) |-> ZeroValue(T.fields[n].type)]
    /\ LET r == parseAllTags(T.fields, loader[1].tagKey)
       IN  IF r.err # << >>
           THEN /\ ret' = [cfg |-> << >>, err |-> r.err]
                /\ pc' = "done"
                /\ UNCHANGED <<tagOpts, i>>
           ELSE /\ tagOpts' = r.opts
                /\ i' = 1
                /\ pc' = "loop"
                /\ UNCHANGED ret
    /\ UNCHANGED <<T, config, args, loads, heap, loader, newErr,
                   validationErrors, calls, coerced, validated, resolved,
                   logged>>

\* An accumulation that keeps the first error only.
AppendErrorsFirstOnly(errs, new) == IF errs = << >> THEN new ELSE errs

\* validationErrors = append(validationErrors, err) (118, 133, 139).
AppendErrors(errs, new) == errs \o new

\* The assignments of one iteration (116-141), it the outcome of the
\* iteration for the constraint opts.
LoadStep(opts, it) ==
    /\ calls' = calls \o [n \in 1..Len(it.calls) |->
                             [src |-> it.calls[n], key |-> opts.key]]
    /\ validationErrors' = AppendErrors(validationErrors, it.errs)
    /\ resolved' = Append(resolved, it.got)
    /\ logged' = logged \o it.log
    /\ cfg' = IF it.val = << >> THEN cfg
              ELSE [cfg EXCEPT ![opts.fieldIdx] = it.val[1]]
    /\ coerced' = IF it.coerced THEN Append(coerced, opts.fieldIdx)
                  ELSE coerced
    /\ validated' = IF it.validated THEN Append(validated, opts.fieldIdx)
                    ELSE validated

LoadField ==
    /\ pc = "loop"
    /\ i <= Len(tagOpts)
    /\ LoadStep(tagOpts[i],
                LoadIteration(tagOpts[i], loader[1].sources,
                              T.fields[tagOpts[i].fieldIdx].type))
    /\ i' = i + 1
    /\ UNCHANGED <<T, config, args, loads, heap, pc, loader, newErr, tagOpts, ret>>

\* A Load that returns the record it built together with the errors.
LoadResultPartial(c, errs) == [cfg |-> <<c>>, err |-> errs]

\* What Load returns after the loop (143-147).
LoadResult(c, errs) ==
    IF Len(errs) > 0 THEN [cfg |-> << >>, err |-> errs]
    ELSE [cfg |-> <<c>>, err |-> << >>]

LoadReturn ==
    /\ pc = "loop"
    /\ i > Len(tagOpts)
    /\ ret' = LoadResult(cfg, validationErrors)
    /\ pc' = "done"
    /\ UNCHANGED <<T, config, args, loads, heap, loader, newErr, cfg, tagOpts,
                   i, validationErrors, calls, coerced, validated, resolved,
                   logged>>

(***************************************************************************)
(* The program builds its command-line source from the arguments and puts *)
(* it first in the source list it gives to New.                            *)
(***************************************************************************)
MakeCLISource ==
    /\ pc = "args"
    /\ config' = [config EXCEPT !.Sources = <<FromCLIArgs(args)>> \o @]
    /\ pc' = "start"
    /\ UNCHANGED <<T, args, loads, heap, loader, newErr, cfg, tagOpts, i,
                   validationErrors, calls, coerced, validated, resolved,
                   logged, ret>>

(***************************************************************************)
(* Load calls on one loader that run side by side, or one after another.   *)
(* Each call has its frame in loads: pc ("ready", "loop", "done"), rec     *)
(* (the address of its local cfg, which escapes to the heap), tagOpts, i,  *)
(* validationErrors, ret (what it returned: the pointer and the error)     *)
(* and out, the record at rec when the call returned; seen and dirty tell  *)
(* which calls had returned when the call began, and which of their        *)
(* records the callers had written to by then.  A step of a call           *)
(* is a step of Load: the tag pass, an iteration, the return.  The sources *)
(* and the logger are those of the loader; the GetValue calls and the log  *)
(* events of every call go to the same histories.                          *)
(***************************************************************************)
Callers == {1, 2}

NoFrame ==
    [pc |-> "ready", rec |-> 0, tagOpts |-> << >>, i |-> 0,
     validationErrors |-> << >>, ret |-> [cfg |-> << >>, err |-> << >>],
     out |-> << >>, seen |-> {}, dirty |-> {}]

\* The zero value of the record type t.
ZeroOf(t) == [n \in 1..Len(t.fields) |-> ZeroValue(t.fields[n].type)]

\* A record that every call has in common.
AllocShared(h) == 1

\* var cfg T (101): a record of its own, at an address that is not in use.
Alloc(h) == Len(h) + 1

\* The heap h with the record r at the address a.
Store(h, a, r) == IF a > Len(h) THEN Append(h, r) ELSE [h EXCEPT ![a] = r]

\* A call that starts with the errors a finished call has collected.
CarriedErrors(l) ==
    IF \E c \in DOMAIN l : l[c].pc = "done"
    THEN l[CHOOSE c \in DOMAIN l : l[c].pc = "done"].validationErrors
    ELSE << >>

\* var validationErrors []error (114): nil, whatever the other calls did.
FreshErrors(l) == << >>

\* The calls of l that have returned, and those of them whose record, in
\* the heap h, is no longer as it was returned.
Done(l) == { c \in DOMAIN l : l[c].pc = "done" }

Dirty(l, h) ==
    { c \in Done(l) : l[c].ret.cfg # << >> /\ <<h[l[c].ret.cfg[1]]>> # l[c].out }

\* The frame f after the tag pass that gave r (109-114), its record at a.
ParsedFrame(f, a, r, errs, seen, dirty) ==
    IF r.err # << >>
    THEN [f EXCEPT !.rec = a, !.pc = "done", !.seen = seen, !.dirty = dirty,
                   !.ret = [cfg |-> << >>, err |-> r.err]]
    ELSE [f EXCEPT !.rec = a, !.pc = "loop", !.tagOpts = r.opts, !.i = 1,
                   !.seen = seen, !.dirty = dirty,
                   !.validationErrors = errs]

CallParse(c) ==
    /\ pc = "ready"
    /\ loads[c].pc = "ready"
    /\ heap' = Store(heap, Alloc(heap), ZeroOf(T))
    /\ loads' = [loads EXCEPT
                   ![c] = ParsedFrame(@, Alloc(heap),
                                      parseAllTags(T.fields, loader[1].tagKey),
                                      FreshErrors(loads), Done(loads),
                                      Dirty(loads, heap))]
    /\ UNCHANGED <<T, config, args, pc, loader, newErr, cfg, tagOpts, i,
                   validationErrors, calls, coerced, validated, resolved,
                   logged, ret>>

\* The assignments of one iteration (116-141) of the call c with the frame
\* f, it the outcome of the iteration for the constraint opts.
CallStep(c, f, opts, it) ==
    /\ heap' = IF it.val = << >> THEN heap
               ELSE [heap EXCEPT ![f.rec][opts.fieldIdx] = it.val[1]]
    /\ loads' = [loads EXCEPT
                   ![c] = [f EXCEPT
                             !.validationErrors = AppendErrors(@, it.errs),
                             !.i = @ + 1]]
    /\ calls' = calls \o [n \in 1..Len(it.calls) |->
                             [src |-> it.calls[n], key |-> opts.key]]
    /\ resolved' = Append(resolved, it.got)
    /\ logged' = logged \o it.log
    /\ coerced' = IF it.coerced THEN Append(coerced, opts.fieldIdx)
                  ELSE coerced
    /\ validated' = IF it.validated THEN Append(validated, opts.fieldIdx)
                    ELSE validated

CallField(c) ==
    /\ loads[c].pc = "loop"
    /\ loads[c].i <= Len(loads[c].tagOpts)
    /\ CallStep(c, loads[c], loads[c].tagOpts[loads[c].i],
                LoadIteration(loads[c].tagOpts[loads[c].i], loader[1].sources,
                              T.fields[loads[c].tagOpts[loads[c].i].fieldIdx].type))
    /\ UNCHANGED <<T, config, args, pc, loader, newErr, cfg, tagOpts, i,
                   validationErrors, ret>>

\* The frame f after the return (143-147), h the heap at that moment.
ReturnedFrame(f, h) ==
    [f EXCEPT !.pc = "done",
              !.ret = LoadResult(f.rec, f.validationErrors),
              !.out = LoadResult(h[f.rec], f.validationErrors).cfg]

CallReturn(c) ==
    /\ loads[c].pc = "loop"
    /\ loads[c].i > Len(loads[c].tagOpts)
    /\ loads' = [loads EXCEPT ![c] = ReturnedFrame(@, heap)]
    /\ UNCHANGED <<T, config, args, heap, pc, loader, newErr, cfg, tagOpts, i,
                   validationErrors, calls, coerced, validated, resolved,
                   logged, ret>>

\* A value of the type t that no source and no default of the model gives.
Scribble(t) ==
    CASE t = "string" -> <<"z">>
      [] t \in IntTypes \cup UintTypes -> 99
      [] t \in FloatTypes -> [m |-> 99, e |-> 0]
      [] t = "bool" -> TRUE
      [] OTHER -> "z"

\* The caller of the call c, which owns the record it was returned, writes
\* to a field of it.
MutateRecord(c) ==
    /\ loads[c].pc = "done"
    /\ loads[c].ret.cfg # << >>
    /\ \E k \in DOMAIN T.fields :
          /\ heap[loads[c].ret.cfg[1]][k] # Scribble(T.fields[k].type)
          /\ heap' = [heap EXCEPT ![loads[c].ret.cfg[1]][k] =
                                     Scribble(T.fields[k].type)]
    /\ UNCHANGED <<T, config, args, loads, pc, loader, newErr, cfg, tagOpts, i,
                   validationErrors, calls, coerced, validated, resolved,
                   logged, ret>>

(***************************************************************************)
(* The inputs: the record types and the loader configurations.             *)
(***************************************************************************)
kA == <<"a">>
kB == <<"b">>
d7 == <<"7">>
tagARequired == JoinComma(<<kA, sRequired>>)
tagBDefault == JoinComma(<<kB, sDefaultEq \o d7>>)
tagARequiredDefault == JoinComma(<<kA, Space \o sRequired, sDefaultEq \o d7>>)
tagBMinMax == JoinComma(<<kB, sMinEq \o <<"2">>, sMaxEq \o <<"8">> >>)
tagABad == JoinComma(<<kA, sMinEq \o <<"x">>, sMaxLenEq \o <<"y">> >>)
tagBBad == JoinComma(<<kB, sMaxEq>>)
tagBLen == JoinComma(<<kB, sMinLenEq \o <<"2">>, sMaxLenEq \o <<"3">> >>)

Field(type, exported, tagKey, tag) ==
    [type |-> type, exported |-> exported, tag |-> (tagKey :> tag)]

FieldPool ==
    { Field("string", TRUE, "configly", tagARequired),
      Field("int", TRUE, "configly", tagBDefault),
      Field("int", TRUE, "configly", tagARequiredDefault),
      Field("int", TRUE, "configly", tagBMinMax),
      Field("int", TRUE, "configly", tagABad),
      Field("string", TRUE, "configly", tagBLen),
      Field("string", FALSE, "configly", kA),
      Field("int", TRUE, "env", kB) }

SeqsUpTo(S, n) == UNION { [1..m -> S] : m \in 0..n }

Types ==
    { [kind |-> "string", fields |-> << >>] }
      \cup { [kind |-> "struct", fields |-> fs] : fs \in SeqsUpTo(FieldPool, MaxFields) }

v5 == <<"5">>
vAbc == <<"a", "b", "c">>

\* The contents of a source: the error flag and the map.
SourcePool ==
    { [Err |-> TRUE, Values |-> << >>],
      [Err |-> FALSE, Values |-> << >>],
      [Err |-> FALSE, Values |-> (kB :> vAbc)],
      [Err |-> FALSE, Values |-> (kA :> vAbc) @@ (kB :> v5)] }

SourceNames == <<"s1", "s2", "s3", "s4">>

\* The source lists: source n is named SourceNames[n].
SourceLists ==
    { [n \in 1..Len(c) |-> [SourceName |-> SourceNames[n], Err |-> c[n].Err,
                            Values |-> c[n].Values]] :
        c \in SeqsUpTo(SourcePool, MaxSources) }

\* The configurations: the default tag key with every source list, a tag
\* key of the caller with the source lists of at most one source.
Configs ==
    { [TagKey |-> "", Sources |-> ss] : ss \in SourceLists }
      \cup { [TagKey |-> "env", Sources |-> ss] :
                ss \in { l \in SourceLists : Len(l) <= 1 } }

Init ==
    /\ T \in Types
    /\ config \in Configs
    /\ pc = "start"
    /\ loader = << >>
    /\ newErr = << >>
    /\ cfg = << >>
    /\ tagOpts = << >>
    /\ i = 0
    /\ validationErrors = << >>
    /\ calls = << >>
    /\ coerced = << >>
    /\ validated = << >>
    /\ resolved = << >>
    /\ logged = << >>
    /\ args = << >>
    /\ loads = << >>
    /\ heap = << >>
    /\ ret = [cfg |-> << >>, err |-> << >>]

Next == New \/ LoadParse \/ LoadField \/ LoadReturn

Spec == Init /\ [][Next]_vars

(***************************************************************************)
(* A second set of inputs, for the tag parser: record types whose tags are *)
(* composed of up to MaxOpts option segments, loaded from one source.      *)
(***************************************************************************)
SegPool ==
    { sRequired,
      Space \o sMinEq \o <<"3">> \o Space,
      sMinEq \o <<"x">>,
      sMaxEq,
      sMinLenEq \o <<"2">>,
      sMaxLenEq \o <<"-">>,
      sDefaultEq \o Space \o d7 \o Space,
      <<"m", "i", "n">> }

TagPool == { JoinComma(<<kA>> \o segs) : segs \in SeqsUpTo(SegPool, MaxOpts) }

tagBDefaultNaN == JoinComma(<<kB, Space \o sDefaultEq \o vAbc \o Space>>)

SideTags == { kB, tagBBad, tagABad, tagBDefaultNaN }

TagTypes ==
    { [kind |-> "struct", fields |-> fs] :
        fs \in { <<Field("string", TRUE, "configly", t)>> : t \in TagPool }
               \cup { <<Field("string", TRUE, "configly", t),
                        Field("int", TRUE, "configly", u)>> :
                        t \in TagPool, u \in SideTags }
               \cup { <<Field("int", TRUE, "configly", u),
                        Field("string", TRUE, "configly", t)>> :
                        t \in TagPool, u \in SideTags } }

TagConfig ==
    [TagKey |-> "",
     Sources |-> <<[SourceName |-> "s1", Err |-> FALSE,
                    Values |-> (kA :> vAbc) @@ (kB :> v5)]>>]

InitTags ==
    /\ T \in TagTypes
    /\ config = TagConfig
    /\ pc = "start"
    /\ loader = << >>
    /\ newErr = << >>
    /\ cfg = << >>
    /\ tagOpts = << >>
    /\ i = 0
    /\ validationErrors = << >>
    /\ calls = << >>
    /\ coerced = << >>
    /\ validated = << >>
    /\ resolved = << >>
    /\ logged = << >>
    /\ args = << >>
    /\ loads = << >>
    /\ heap = << >>
    /\ ret = [cfg |-> << >>, err |-> << >>]

SpecTags == InitTags /\ [][Next]_vars

(***************************************************************************)
(* A third set of inputs, for coercion and validation: records of a field  *)
(* "a" of every kind, with bounds up to MaxBound, followed by the string   *)
(* field "b"; one source, which holds "b" and, when the value is placed in *)
(* the source, "a"; the value is otherwise the default of the tag, or      *)
(* nowhere.                                                                *)
(***************************************************************************)
MaxBound == 2

DigitChar(d) == CASE d = 0 -> "0" [] d = 1 -> "1" [] d = 2 -> "2" [] d = 3 -> "3"
                  [] d = 4 -> "4" [] d = 5 -> "5" [] d = 6 -> "6" [] d = 7 -> "7"
                  [] d = 8 -> "8" [] d = 9 -> "9"

RECURSIVE NatStr(_)
NatStr(n) == IF n < 10 THEN <<DigitChar(n)>>
             ELSE NatStr(n \div 10) \o <<DigitChar(n % 10)>>

\* The base-10 literal of an integer.
Itoa(n) == IF n < 0 THEN <<"-">> \o NatStr(0 - n) ELSE NatStr(n)

Repeat(c, n) == [k \in 1..n |-> c]

\* The option lists that bound a field from below (lo), from above (hi),
\* from both sides or not at all, with the bounds in R.
BoundSegs(lo, hi, R) ==
    { << >> }
      \cup { <<lo \o Itoa(m)>> : m \in R }
      \cup { <<hi \o Itoa(m)>> : m \in R }
      \cup { <<lo \o Itoa(m), hi \o Itoa(n)>> : m \in R, n \in R }

ValueKinds ==
    {"string", "int", "int8", "int16", "int64", "uint8", "uint16", "uint64",
     "float64", "bool", "Duration"}

SegsOf(t) ==
    CASE t = "string" -> BoundSegs(sMinLenEq, sMaxLenEq, 0..MaxBound)
      [] t \in IntKinds -> BoundSegs(sMinEq, sMaxEq, (0 - MaxBound)..MaxBound)
      [] t \in UintKinds -> BoundSegs(sMinEq, sMaxEq, (0 - MaxBound)..MaxBound)
      [] t \in FloatKinds -> BoundSegs(sMinEq, sMaxEq, 0..MaxBound)
      [] OTHER -> { << >> }

vNaN == <<"a", "b", "c">>

\* The raw strings offered to a field of type t.
ValuesOf(t) ==
    CASE t = "string" -> { Repeat("x", n) : n \in 0..(MaxBound + 1) }
      [] t \in IntKinds ->
           { Itoa(n) : n \in (0 - (MaxBound + 1))..(MaxBound + 1) }
             \cup { Empty, vNaN, Itoa(256), Itoa(300), Itoa(0 - 129),
                     Itoa(65536), Itoa(70000) }
      [] t \in UintKinds ->
           { Itoa(n) : n \in 0..(MaxBound + 1) }
             \cup { Empty, vNaN, Itoa(0 - 1), Itoa(256), Itoa(300),
                     Itoa(65536), Itoa(70000) }
      [] t \in FloatKinds -> { Empty, <<"1", ".", "5">>, vNaN }
      [] t = "bool" -> { Empty, <<"t", "r", "u", "e">>, vNaN }
      [] t = "Duration" -> { Empty, <<"5", "m", "s">>, vNaN }

Places == {"source", "default", "nowhere"}

ValueTag(segs, place, v) ==
    JoinComma(<<kA>> \o segs
                \o (IF place = "default" THEN <<sDefaultEq \o v>> ELSE << >>))

ValueType(t, segs, place, v) ==
    [kind |-> "struct",
     fields |-> <<Field(t, TRUE, "configly", ValueTag(segs, place, v)),
                  Field("string", TRUE, "configly", kB)>>]

ValueConfig(place, v) ==
    [TagKey |-> "",
     Sources |-> <<[SourceName |-> "s1", Err |-> FALSE,
                    Values |-> IF place = "source" THEN (kA :> v) @@ (kB :> vAbc)
                               ELSE (kB :> vAbc)]>>]

InitValues ==
    /\ \E t \in ValueKinds : \E segs \in SegsOf(t) : \E place \in Places :
         \E v \in ValuesOf(t) :
            /\ T = ValueType(t, segs, place, v)
            /\ config = ValueConfig(place, v)
    /\ pc = "start"
    /\ loader = << >>
    /\ newErr = << >>
    /\ cfg = << >>
    /\ tagOpts = << >>
    /\ i = 0
    /\ validationErrors = << >>
    /\ calls = << >>
    /\ coerced = << >>
    /\ validated = << >>
    /\ resolved = << >>
    /\ logged = << >>
    /\ args = << >>
    /\ loads = << >>
    /\ heap = << >>
    /\ ret = [cfg |-> << >>, err |-> << >>]

SpecValues == InitValues /\ [][Next]_vars

(***************************************************************************)
(* A fourth set of inputs, for the command-line source: the program makes  *)
(* the source from up to MaxArgs arguments and loads a record of one field *)
(* from it, alone or followed by a mock source that holds the empty key.   *)
(* The kind "slice" stands for the kinds setField has no case for.         *)
(***************************************************************************)
MaxArgs == 2

Eq == <<"=">>

ArgPool ==
    { kA \o Eq \o v5,
      Dash \o Dash \o kA \o Eq \o vAbc,
      Dash \o kA \o Eq,
      Dash \o Dash \o kA,
      Eq \o v5,
      kA \o Eq \o d7 \o Eq \o d7 }

ArgKinds == {"string", "int", "uint8", "float64", "bool", "Duration", "slice"}

tagNoKeyRequired == JoinComma(<<Empty, sRequired>>)
tagNoKeyDefault == JoinComma(<<Empty, sDefaultEq \o d7>>)

ArgTags ==
    { kA, tagARequired, JoinComma(<<kA, sDefaultEq \o d7>>),
      JoinComma(<<kA, sMinLenEq \o <<"1">> >>), tagNoKeyRequired,
      tagNoKeyDefault }

ArgTypes ==
    { [kind |-> "struct", fields |-> <<Field(t, TRUE, "configly", tag)>>] :
        t \in ArgKinds, tag \in ArgTags }

\* The sources that follow the command-line source.
ArgRest ==
    { << >>,
      <<[SourceName |-> "s2", Err |-> FALSE,
         Values |-> (Empty :> vAbc) @@ (kA :> vAbc)]>> }

InitArgs ==
    /\ T \in ArgTypes
    /\ args \in SeqsUpTo(ArgPool, MaxArgs)
    /\ config \in { [TagKey |-> "", Sources |-> rest] : rest \in ArgRest }
    /\ pc = "args"
    /\ loader = << >>
    /\ newErr = << >>
    /\ cfg = << >>
    /\ tagOpts = << >>
    /\ i = 0
    /\ validationErrors = << >>
    /\ calls = << >>
    /\ coerced = << >>
    /\ validated = << >>
    /\ resolved = << >>
    /\ logged = << >>
    /\ loads = << >>
    /\ heap = << >>
    /\ ret = [cfg |-> << >>, err |-> << >>]

NextArgs == MakeCLISource \/ New \/ LoadParse \/ LoadField \/ LoadReturn

SpecArgs == InitArgs /\ [][NextArgs]_vars

(***************************************************************************)
(* A fifth set of inputs, for the calls that run side by side: records of  *)
(* up to MaxFields fields, loaded twice from one source.                   *)
(***************************************************************************)
CallFieldPool ==
    { Field("string", TRUE, "configly", tagARequired),
      Field("int", TRUE, "configly", tagBDefault),
      Field("int", TRUE, "configly", tagBMinMax) }

CallTypes ==
    { [kind |-> "struct", fields |-> fs] :
        fs \in SeqsUpTo(CallFieldPool, MaxFields) }

CallSourcePool ==
    { [Err |-> TRUE, Values |-> << >>],
      [Err |-> FALSE, Values |-> (kB :> vAbc)],
      [Err |-> FALSE, Values |-> (kA :> vAbc) @@ (kB :> v5)] }

CallConfigs ==
    { [TagKey |-> "",
       Sources |-> <<[SourceName |-> "s1", Err |-> c.Err, Values |-> c.Values]>>] :
        c \in CallSourcePool }

InitCalls ==
    /\ T \in CallTypes
    /\ config \in CallConfigs
    /\ loads = [c \in Callers |-> NoFrame]
    /\ heap = << >>
    /\ args = << >>
    /\ pc = "start"
    /\ loader = << >>
    /\ newErr = << >>
    /\ cfg = << >>
    /\ tagOpts = << >>
    /\ i = 0
    /\ validationErrors = << >>
    /\ calls = << >>
    /\ coerced = << >>
    /\ validated = << >>
    /\ resolved = << >>
    /\ logged = << >>
    /\ ret = [cfg |-> << >>, err |-> << >>]

NextCalls ==
    \/ New
    \/ \E c \in Callers :
          CallParse(c) \/ CallField(c) \/ CallReturn(c) \/ MutateRecord(c)

SpecCalls == InitCalls /\ [][NextCalls]_vars

(***************************************************************************)
(* Notions the properties below are stated with, read off the inputs.      *)
(***************************************************************************)
Min(S) == CHOOSE n \in S : \A m \in S : n <= m

\* The sources of the configuration that answer the key k: no error, found.
Having(k) ==
    { n \in 1..Len(config.Sources) :
        ~config.Sources[n].Err /\ k \in DOMAIN config.Sources[n].Values }

\* The option segments of a tag, trimmed.
Options(tag) ==
    LET parts == Split(tag) IN [n \in 1..(Len(parts) - 1) |-> TrimSpace(parts[n + 1])]

IsIntLiteral(s) ==
    LET body == IF s # Empty /\ Head(s) \in {"+", "-"} THEN Tail(s) ELSE s
    IN  body # Empty /\ \A n \in 1..Len(body) : body[n] \in Digits

BoundPrefixes == {sMinEq, sMaxEq, sMinLenEq, sMaxLenEq}

\* An option min=, max=, minLen= or maxLen= whose value is no integer.
Malformed(o) == \E p \in BoundPrefixes : HasPrefix(o, p) /\ ~IsIntLiteral(Tail2(o, Len(p)))

\* The fields Load looks at: settable, and annotated under the tag key.
TagKeyOf(c) == IF c.TagKey = "" THEN "configly" ELSE c.TagKey

Annotated ==
    { n \in 1..Len(T.fields) :
        T.fields[n].exported /\ TagGet(T.fields[n], TagKeyOf(config)) # Empty }

TagOf(n) == TagGet(T.fields[n], TagKeyOf(config))

\* The fields Load looks at whose tag has a malformed option.
BadTagFields ==
    { n \in Annotated :
        LET os == Options(TagOf(n)) IN \E m \in DOMAIN os : Malformed(os[m]) }

TagErrorKinds ==
    {"invalid minimum value", "invalid maximum value", "invalid min length value",
     "invalid max length value"}

FieldErrorKinds ==
    {"required value not found", "error setting", "string length less than minimum",
     "string length exceeds maximum", "integer value is less than minimum",
     "integer value exceeds maximum", "unsigned integer value is less than minimum",
     "unsigned integer value exceeds maximum", "float value is less than minimum",
     "float value exceeds maximum"}

(***************************************************************************)
(* C1.  Load returns either a record and no error, or no record and an     *)
(* error; it returns a record exactly when no tag-parse error and no       *)
(* missing-required, coercion or validation error was recorded; a record   *)
(* some of whose fields were set is never returned together with errors.   *)
(***************************************************************************)
C1_RecordXorError ==
    pc = "done" =>
        /\ (ret.cfg = << >>) # (ret.err = << >>)
        /\ (ret.cfg # << >>) <=> (BadTagFields = {} /\ validationErrors = << >>)
        /\ ret.cfg # << >> => ret.cfg[1] = cfg

\* Load failed although a field had been set and validated.
C1_Witness ==
    /\ pc = "done"
    /\ ret.cfg = << >>
    /\ Len(validationErrors) > 0
    /\ Len(validated) > Len(validationErrors)
    /\ \E n \in 1..Len(cfg) : cfg[n] # ZeroValue(T.fields[n].type)

\* The value the sources give for the key k: that of the first source
\* that answers it.
SourceValue(k) == config.Sources[Min(Having(k))].Values[k]

SourceNameOf(k) == config.Sources[Min(Having(k))].SourceName

Erring == { n \in 1..Len(config.Sources) : config.Sources[n].Err }

HasRequired(tag) == LET os == Options(tag) IN \E m \in DOMAIN os : os[m] = sRequired

\* The type and the tag of the field of the j-th constraint.
TypeAt(j) == T.fields[tagOpts[j].fieldIdx].type

TagAt(j) == TagOf(tagOpts[j].fieldIdx)

Range(q) == { q[n] : n \in DOMAIN q }

\* The constraints already handled that are required and have no value in
\* any source.
MissingRequired ==
    { j \in DOMAIN resolved : HasRequired(TagAt(j)) /\ Having(tagOpts[j].key) = {} }

RequiredErrors(errs, k) ==
    { e \in DOMAIN errs : errs[e].kind = "required value not found" /\ errs[e].keys = <<k>> }

(***************************************************************************)
(* C2.  Source priority: the value resolved for a key is the value of the  *)
(* earliest source that finds the key without error, under that source's   *)
(* name, and it is the value the field is set from; the value of a later   *)
(* source is not used.                                                     *)
(***************************************************************************)
C2_SourcePriority ==
    \A j \in DOMAIN resolved :
        LET k == tagOpts[j].key
        IN  Having(k) # {} =>
              /\ resolved[j].found
              /\ resolved[j].value = SourceValue(k)
              /\ resolved[j].sourceName = SourceNameOf(k)
              /\ LET set == setField(TypeAt(j), SourceValue(k))
                 IN  set.ok => cfg[tagOpts[j].fieldIdx] = set.val[1]

\* Two sources hold different values for a key and the record was loaded.
C2_Witness ==
    /\ pc = "done"
    /\ ret.cfg # << >>
    /\ \E j \in DOMAIN resolved :
         \E n \in Having(tagOpts[j].key) :
            /\ n > Min(Having(tagOpts[j].key))
            /\ config.Sources[n].Values[tagOpts[j].key] # SourceValue(tagOpts[j].key)
            /\ resolved[j].sourceName = "s1"

(***************************************************************************)
(* C3.  A source whose GetValue returns an error is skipped: the first     *)
(* later source that finds the key supplies the value; when every source   *)
(* returns an error the lookup and the iteration end as they do when no    *)
(* source has the key; no error returned by Load names a failing source.   *)
(***************************************************************************)
ClearedSources ==
    [n \in 1..Len(config.Sources) |->
        [SourceName |-> config.Sources[n].SourceName, Err |-> FALSE, Values |-> << >>]]

Outcome(it) == [errs |-> it.errs, val |-> it.val, coerced |-> it.coerced,
                validated |-> it.validated, found |-> it.got.found,
                value |-> it.got.value, sourceName |-> it.got.sourceName]

C3_SourceErrorSkipped ==
    /\ \A j \in DOMAIN resolved :
         LET k == tagOpts[j].key
         IN  /\ (Having(k) # {} /\ \E n \in Erring : n < Min(Having(k))) =>
                   /\ resolved[j].found
                   /\ resolved[j].value = SourceValue(k)
                   /\ resolved[j].sourceName = SourceNameOf(k)
             /\ Erring = 1..Len(config.Sources) =>
                   /\ resolved[j] = [key |-> k, value |-> Empty, sourceName |-> "",
                                     found |-> FALSE]
                   /\ Outcome(LoadIteration(tagOpts[j], config.Sources, TypeAt(j)))
                        = Outcome(LoadIteration(tagOpts[j], ClearedSources, TypeAt(j)))
    /\ pc = "done" =>
         \A e \in DOMAIN ret.err :
            /\ ret.err[e].kind \in TagErrorKinds \cup FieldErrorKinds
            /\ \A n \in Erring : config.Sources[n].SourceName \notin Range(ret.err[e].srcs)

\* The first source fails, the second supplied a value, the record was loaded.
C3_Witness ==
    /\ pc = "done"
    /\ ret.cfg # << >>
    /\ 1 \in Erring
    /\ \E j \in DOMAIN resolved : resolved[j].found /\ resolved[j].sourceName = "s2"

(***************************************************************************)
(* C4.  A field whose tag says required and whose key no source finds:     *)
(* Load records one missing-required error naming the key, does not call   *)
(* setField for the field and leaves it at its zero value, goes on to the  *)
(* next field, and returns no record.                                      *)
(***************************************************************************)
C4_RequiredMissing ==
    LET missing == MissingRequired
    IN  /\ \A j \in missing :
             /\ tagOpts[j].fieldIdx \notin Range(coerced)
             /\ cfg[tagOpts[j].fieldIdx] = ZeroValue(TypeAt(j))
             /\ Cardinality(RequiredErrors(validationErrors, tagOpts[j].key))
                  = Cardinality({ m \in missing : tagOpts[m].key = tagOpts[j].key })
        /\ pc = "loop" => Len(resolved) = i - 1
        /\ (pc = "done" /\ ret.cfg # << >>) => Len(resolved) = Len(tagOpts)
        /\ (pc = "done" /\ missing # {}) =>
             /\ Len(resolved) = Len(tagOpts)
             /\ ret.cfg = << >>
             /\ \A j \in missing : RequiredErrors(ret.err, tagOpts[j].key) # {}

\* A required field without value, followed by a field that was set.
C4_Witness ==
    /\ pc = "done"
    /\ ret.cfg = << >>
    /\ Len(tagOpts) = 2
    /\ 1 \in MissingRequired
    /\ tagOpts[2].fieldIdx \in Range(coerced)
    /\ cfg[tagOpts[2].fieldIdx] # ZeroValue(TypeAt(2))

(***************************************************************************)
(* C5.  As claimed: for a field with required and a non-empty default, the *)
(* default satisfies the field when no source has the key (no              *)
(* missing-required error; the field is the coerced default).              *)
(***************************************************************************)
RequiredWithDefault ==
    { j \in MissingRequired : tagOpts[j].defaultValue # Empty }

C5_DefaultSatisfiesRequired ==
    \A j \in RequiredWithDefault :
        /\ RequiredErrors(validationErrors, tagOpts[j].key) = {}
        /\ LET set == setField(TypeAt(j), tagOpts[j].defaultValue)
           IN  set.ok => cfg[tagOpts[j].fieldIdx] = set.val[1]

(***************************************************************************)
(* C5, amended.  For a field with required and a non-empty default, when   *)
(* no source has the key, required wins: a missing-required error naming   *)
(* the key is recorded, the default is not coerced, the field keeps its    *)
(* zero value and Load returns no record.                                  *)
(***************************************************************************)
C5_RequiredBeatsDefault ==
    \A j \in RequiredWithDefault :
        /\ RequiredErrors(validationErrors, tagOpts[j].key) # {}
        /\ tagOpts[j].fieldIdx \notin Range(coerced)
        /\ tagOpts[j].fieldIdx \notin Range(validated)
        /\ cfg[tagOpts[j].fieldIdx] = ZeroValue(TypeAt(j))
        /\ pc = "done" => ret.cfg = << >> /\ RequiredErrors(ret.err, tagOpts[j].key) # {}

\* Load returned with a required field that has a coercible default and no
\* value in the sources.
C5_Witness ==
    /\ pc = "done"
    /\ \E j \in RequiredWithDefault :
         setField(TypeAt(j), tagOpts[j].defaultValue).ok

(***************************************************************************)
(* C6.  A field that is not required and has a non-empty default: in the   *)
(* record Load returns it holds the coerced value of the sources when a    *)
(* source has the key, and the coerced default otherwise.                  *)
(***************************************************************************)
C6_DefaultOrSource ==
    (pc = "done" /\ ret.cfg # << >>) =>
        \A j \in DOMAIN tagOpts :
            (~HasRequired(TagAt(j)) /\ tagOpts[j].defaultValue # Empty) =>
                LET k == tagOpts[j].key
                    v == IF Having(k) # {} THEN SourceValue(k)
                         ELSE tagOpts[j].defaultValue
                    set == setField(TypeAt(j), v)
                IN  set.ok /\ ret.cfg[1][tagOpts[j].fieldIdx] = set.val[1]

\* The record was loaded with the default of a field no source has.
C6_Witness ==
    /\ pc = "done"
    /\ ret.cfg # << >>
    /\ \E j \in DOMAIN tagOpts :
         /\ ~HasRequired(TagAt(j))
         /\ tagOpts[j].defaultValue = d7
         /\ Having(tagOpts[j].key) = {}
         /\ ret.cfg[1][tagOpts[j].fieldIdx] = 7

(***************************************************************************)
(* C7.  The error Load returns has one entry for every failing field and   *)
(* no other, in the order of declaration, whatever the failure (missing    *)
(* required value, coercion, bound); every field is resolved, and coerced  *)
(* and validated when it has a value, whatever happened to earlier fields. *)
(***************************************************************************)
\* The failure of the j-th constraint, "" when it has none.
Failure(j) ==
    LET o == tagOpts[j]
        has == Having(o.key) # {}
        v == IF has THEN SourceValue(o.key) ELSE o.defaultValue
        set == setField(TypeAt(j), v)
    IN  IF ~has /\ HasRequired(TagAt(j)) THEN "required value not found"
        ELSE IF ~has /\ o.defaultValue = Empty THEN ""
        ELSE IF ~set.ok THEN "error setting"
        ELSE LET bad == validateField(TypeAt(j), set.val[1], o)
             IN  IF bad = << >> THEN "" ELSE bad[1].kind

HasValue(j) ==
    \/ Having(tagOpts[j].key) # {}
    \/ ~HasRequired(TagAt(j)) /\ tagOpts[j].defaultValue # Empty

Failing == { j \in DOMAIN tagOpts : Failure(j) # "" }

\* The n-th element of a set of numbers.
Nth(S, n) == CHOOSE x \in S : Cardinality({ y \in S : y < x }) = n - 1

\* The elements of the sequence q that are in S, in their order.
Filter(q, S) ==
    LET keep == { n \in DOMAIN q : q[n] \in S }
    IN  [m \in 1..Cardinality(keep) |-> q[Nth(keep, m)]]

C7_AllFailuresReported ==
    (pc = "done" /\ BadTagFields = {}) =>
        LET failing == Failing
            valued == { j \in DOMAIN tagOpts : HasValue(j) }
        IN  /\ { tagOpts[j].fieldIdx : j \in DOMAIN tagOpts } = Annotated
            /\ \A j \in DOMAIN tagOpts : \A m \in DOMAIN tagOpts :
                  j < m => tagOpts[j].fieldIdx < tagOpts[m].fieldIdx
            /\ Len(ret.err) = Cardinality(failing)
            /\ \A e \in DOMAIN ret.err :
                  /\ ret.err[e].kind = Failure(Nth(failing, e))
                  /\ ret.err[e].kind \in {"required value not found", "error setting"} =>
                        ret.err[e].keys = <<tagOpts[Nth(failing, e)].key>>
            /\ Len(resolved) = Len(tagOpts)
            /\ coerced = [n \in 1..Cardinality(valued) |->
                            tagOpts[Nth(valued, n)].fieldIdx]
            /\ validated = Filter(coerced,
                                  { tagOpts[j].fieldIdx : j \in
                                      { m \in valued : Failure(m) # "error setting" } })

\* Two fields failed in different ways.
C7_Witness ==
    /\ pc = "done"
    /\ Len(ret.err) = 2
    /\ Len(tagOpts) = 2
    /\ ret.err[1].kind = "required value not found"
    /\ ret.err[2].kind = "error setting"

(***************************************************************************)
(* C8.  Two phases: no source is asked before the tags of all fields are   *)
(* parsed, and when the tag of any field fails to parse Load returns the   *)
(* tag errors and no record without a single GetValue call.                *)
(***************************************************************************)
C8_TagsBeforeSources ==
    /\ pc \in {"start", "newfailed", "ready"} => calls = << >>
    /\ (pc \in {"loop", "done"} /\ BadTagFields # {}) =>
         /\ pc = "done"
         /\ calls = << >>
         /\ resolved = << >>
         /\ ret.cfg = << >>
         /\ ret.err # << >>
         /\ \A e \in DOMAIN ret.err : ret.err[e].kind \in TagErrorKinds

\* Load returned on a malformed tag; another field has a tag that parses.
C8_Witness ==
    /\ pc = "done"
    /\ BadTagFields # {}
    /\ Annotated \ BadTagFields # {}
    /\ calls = << >>
    /\ ret.err # << >>

(***************************************************************************)
(* C9.  Tag errors are complete: parseTag returns one error for every      *)
(* malformed min, max, minLen or maxLen option of a tag, and the error of  *)
(* the tag pass holds the errors of all malformed options of all fields,   *)
(* in the order of the fields and of the options.                          *)
(***************************************************************************)
\* The malformed options, as pairs of a field and a position in its tag.
BadOptions ==
    { p \in UNION { { <<n, m>> : m \in DOMAIN Options(TagOf(n)) } : n \in Annotated } :
        Malformed(Options(TagOf(p[1]))[p[2]]) }

Before(p, q) == p[1] < q[1] \/ (p[1] = q[1] /\ p[2] < q[2])

Rank(p) == 1 + Cardinality({ q \in BadOptions : Before(q, p) })

TagErrorKind(o) ==
    CASE HasPrefix(o, sMinEq) -> "invalid minimum value"
      [] HasPrefix(o, sMaxEq) -> "invalid maximum value"
      [] HasPrefix(o, sMinLenEq) -> "invalid min length value"
      [] HasPrefix(o, sMaxLenEq) -> "invalid max length value"

C9_TagErrorsComplete ==
    pc = "done" =>
        /\ \A n \in Annotated :
              Len(parseTag(TagOf(n)).warnings)
                = Cardinality({ p \in BadOptions : p[1] = n })
        /\ BadOptions # {} =>
              /\ Len(ret.err) = Cardinality(BadOptions)
              /\ \A p \in BadOptions :
                    LET o == Options(TagOf(p[1]))[p[2]]
                    IN  /\ ret.err[Rank(p)].kind = TagErrorKind(o)
                        /\ \E pre \in BoundPrefixes :
                              /\ HasPrefix(o, pre)
                              /\ ret.err[Rank(p)].text = Tail2(o, Len(pre))

\* Two fields with malformed tags, one of them with two malformed options.
C9_Witness ==
    /\ pc = "done"
    /\ Cardinality({ p[1] : p \in BadOptions }) = 2
    /\ \E p \in BadOptions : \E q \in BadOptions : p[1] = q[1] /\ p[2] # q[2]
    /\ Len(ret.err) = Cardinality(BadOptions)

(***************************************************************************)
(* C10.  New returns no loader and an error when the source list is empty  *)
(* or T is not a struct; otherwise a loader and no error, and the sources  *)
(* of the loader are the configured sources in the configured order.       *)
(***************************************************************************)
C10_NewContract ==
    pc # "start" =>
        IF Len(config.Sources) = 0 \/ T.kind # "struct"
        THEN loader = << >> /\ newErr # << >>
        ELSE /\ loader # << >>
             /\ newErr = << >>
             /\ loader[1].sources = config.Sources

\* New refused a non-struct type although sources were configured.
C10_Witness ==
    /\ pc = "newfailed"
    /\ T.kind # "struct"
    /\ Len(config.Sources) = MaxSources
    /\ loader = << >>

(***************************************************************************)
(* C11.  A field that is not annotated under the tag key of the loader, or *)
(* that cannot be set, has no constraint, is never looked up (the GetValue *)
(* calls made are those of the constraints handled), is never coerced and  *)
(* keeps its zero value, whatever the sources hold; a record without       *)
(* annotated fields is returned zero-valued, without error and without a   *)
(* single GetValue call.                                                   *)
(***************************************************************************)
\* The number of sources getValueFromSources asks for the key k: all of
\* them, or those up to the first one that answers.
Asked(k) == IF Having(k) = {} THEN Len(config.Sources) ELSE Min(Having(k))

RECURSIVE AskedUpTo(_)
AskedUpTo(j) == IF j = 0 THEN 0 ELSE AskedUpTo(j - 1) + Asked(tagOpts[j].key)

ZeroRecord == [n \in 1..Len(T.fields) |-> ZeroValue(T.fields[n].type)]

C11_UntaggedUntouched ==
    pc \in {"loop", "done"} =>
        LET annotated == Annotated
            others == (1..Len(T.fields)) \ annotated
        IN  /\ \A j \in DOMAIN tagOpts : tagOpts[j].fieldIdx \in annotated
            /\ Len(resolved) <= Cardinality(annotated)
            /\ Len(calls) = AskedUpTo(Len(resolved))
            /\ \A n \in others :
                  /\ cfg[n] = ZeroValue(T.fields[n].type)
                  /\ n \notin Range(coerced)
                  /\ n \notin Range(validated)
            /\ (pc = "done" /\ ret.cfg # << >>) =>
                  \A n \in others : ret.cfg[1][n] = ZeroValue(T.fields[n].type)
            /\ annotated = {} =>
                  /\ tagOpts = << >>
                  /\ calls = << >>
                  /\ pc = "done" => ret = [cfg |-> <<ZeroRecord>>, err |-> << >>]

\* The record was loaded; a field that cannot be set carries a tag whose key
\* a source holds, next to a field that was set from the sources.
C11_Witness ==
    /\ pc = "done"
    /\ ret.cfg # << >>
    /\ \E n \in 1..Len(T.fields) :
         /\ ~T.fields[n].exported
         /\ TagGet(T.fields[n], TagKeyOf(config)) = kA
         /\ Having(kA) # {}
         /\ ret.cfg[1][n] = Empty
    /\ \E m \in Annotated : ret.cfg[1][m] # ZeroValue(T.fields[m].type)

(***************************************************************************)
(* C12.  The length bounds of a string field are inclusive: a value whose  *)
(* length is minLen or more and maxLen or less (so also exactly minLen or  *)
(* exactly maxLen) is assigned and passes; a value one unit shorter than   *)
(* minLen, or one unit longer than maxLen, makes Load fail with the error  *)
(* of that bound, which prints the length and the bound.                   *)
(***************************************************************************)
\* The raw string the j-th constraint resolves to: that of the sources, or
\* else the default.
RawValue(j) ==
    IF Having(tagOpts[j].key) # {} THEN SourceValue(tagOpts[j].key)
    ELSE tagOpts[j].defaultValue

\* The string constraints that have a value.
StringValued == { j \in DOMAIN tagOpts : TypeAt(j) = "string" /\ HasValue(j) }

TooShort(j) == tagOpts[j].minLen # << >> /\ Len(RawValue(j)) < tagOpts[j].minLen[1]

TooLong(j) == tagOpts[j].maxLen # << >> /\ Len(RawValue(j)) > tagOpts[j].maxLen[1]

LengthErrors(errs) ==
    { e \in DOMAIN errs :
        errs[e].kind \in {"string length less than minimum",
                           "string length exceeds maximum"} }

C12_LengthBoundsInclusive ==
    (pc = "done" /\ BadTagFields = {}) =>
        LET short == { j \in StringValued : TooShort(j) }
            long == { j \in StringValued : ~TooShort(j) /\ TooLong(j) }
        IN  /\ \A j \in StringValued : cfg[tagOpts[j].fieldIdx] = RawValue(j)
            /\ Cardinality(LengthErrors(ret.err)) = Cardinality(short \cup long)
            /\ short \cup long # {} => ret.cfg = << >>
            /\ (short \cup long = {} /\ StringValued = DOMAIN tagOpts) =>
                  ret.cfg # << >>
            /\ \A j \in short :
                  \E e \in DOMAIN ret.err :
                     /\ ret.err[e].kind = "string length less than minimum"
                     /\ ret.err[e].nums = <<Len(RawValue(j)), tagOpts[j].minLen[1]>>
            /\ \A j \in long :
                  \E e \in DOMAIN ret.err :
                     /\ ret.err[e].kind = "string length exceeds maximum"
                     /\ ret.err[e].nums = <<Len(RawValue(j)), tagOpts[j].maxLen[1]>>

\* A record was loaded whose string is exactly as long as both of its bounds.
C12_Witness ==
    /\ pc = "done"
    /\ ret.cfg # << >>
    /\ tagOpts[1].minLen = <<MaxBound>>
    /\ tagOpts[1].maxLen = <<MaxBound>>
    /\ Len(ret.cfg[1][1]) = MaxBound

\* Load failed on a string one unit shorter than minLen.
C12_WitnessShort ==
    /\ pc = "done"
    /\ ret.cfg = << >>
    /\ tagOpts[1].minLen = <<MaxBound>>
    /\ Len(cfg[1]) = MaxBound - 1

\* Load failed on a string one unit longer than maxLen.
C12_WitnessLong ==
    /\ pc = "done"
    /\ ret.cfg = << >>
    /\ tagOpts[1].maxLen = <<MaxBound>>
    /\ Len(cfg[1]) = MaxBound + 1

(***************************************************************************)
(* C13.  As claimed: a base-10 integer string whose value does not fit the *)
(* width of the integer field it is resolved for ("300" for an 8-bit       *)
(* signed field, "70000" for a 16-bit unsigned one) yields a coercion      *)
(* error naming the key, the field stays zero and Load returns no record.  *)
(***************************************************************************)
\* The values of the integer type t.
FitsWidth(t, n) ==
    CASE t = "int8" -> n >= 0 - 128 /\ n <= 127
      [] t = "int16" -> n >= 0 - 32768 /\ n <= 32767
      [] t = "uint8" -> n >= 0 /\ n <= 255
      [] t = "uint16" -> n >= 0 /\ n <= 65535
      [] t \in UintKinds -> n >= 0
      [] OTHER -> TRUE

\* The integer constraints whose value is an integer literal outside the
\* width of the field.
Overflowing ==
    { j \in DOMAIN tagOpts :
        /\ TypeAt(j) \in IntKinds \cup UintKinds
        /\ HasValue(j)
        /\ IsIntLiteral(RawValue(j))
        /\ ~FitsWidth(TypeAt(j), ParseInt(RawValue(j)).val) }

C13_OverflowRejected ==
    pc = "done" =>
        \A j \in Overflowing :
            /\ \E e \in DOMAIN ret.err :
                  ret.err[e].kind = "error setting" /\ ret.err[e].keys = <<tagOpts[j].key>>
            /\ cfg[tagOpts[j].fieldIdx] = 0
            /\ ret.cfg = << >>

\* What the code does instead: the value is stored reduced modulo the
\* width of the field, without an error of coercion.
C13_OverflowTruncated ==
    pc = "done" =>
        \A j \in Overflowing :
            LET n == ParseInt(RawValue(j)).val
                t == TypeAt(j)
            IN  (n >= 0 \/ t \in IntKinds) =>
                  /\ \A e \in DOMAIN ret.err : ret.err[e].kind # "error setting"
                  /\ t = "int8" => cfg[tagOpts[j].fieldIdx] = ((n + 128) % 256) - 128
                  /\ t = "int16" => cfg[tagOpts[j].fieldIdx] = ((n + 32768) % 65536) - 32768
                  /\ t = "uint8" => cfg[tagOpts[j].fieldIdx] = n % 256
                  /\ t = "uint16" => cfg[tagOpts[j].fieldIdx] = n % 65536

(***************************************************************************)
(* C14.  As claimed: in a record Load returns, every signed-integer field  *)
(* that was resolved holds a value within its declared min and max         *)
(* (inclusive), and a resolved value below min or above max makes Load     *)
(* fail.                                                                   *)
(***************************************************************************)
\* The signed-integer constraints resolved to an integer literal.
IntValued ==
    { j \in DOMAIN tagOpts :
        TypeAt(j) \in IntKinds /\ HasValue(j) /\ IsIntLiteral(RawValue(j)) }

BelowMin(j, n) == tagOpts[j].min # << >> /\ n < tagOpts[j].min[1]

AboveMax(j, n) == tagOpts[j].max # << >> /\ n > tagOpts[j].max[1]

C14_IntBoundsEnforced ==
    (pc = "done" /\ BadTagFields = {}) =>
        \A j \in IntValued :
            LET n == ParseInt(RawValue(j)).val
            IN  /\ ret.cfg # << >> =>
                     /\ ~BelowMin(j, ret.cfg[1][tagOpts[j].fieldIdx])
                     /\ ~AboveMax(j, ret.cfg[1][tagOpts[j].fieldIdx])
                /\ (BelowMin(j, n) \/ AboveMax(j, n)) => ret.cfg = << >>

\* The same for the values that fit the width of their field, where the
\* field holds the value resolved: the bounds are enforced, inclusively.
C14_IntBoundsWithinWidth ==
    (pc = "done" /\ BadTagFields = {}) =>
        \A j \in IntValued \ Overflowing :
            LET n == ParseInt(RawValue(j)).val
            IN  /\ cfg[tagOpts[j].fieldIdx] = n
                /\ ret.cfg # << >> => ~BelowMin(j, n) /\ ~AboveMax(j, n)
                /\ (BelowMin(j, n) \/ AboveMax(j, n)) =>
                     /\ ret.cfg = << >>
                     /\ \E e \in DOMAIN ret.err :
                           /\ ret.err[e].kind \in {"integer value is less than minimum",
                                                    "integer value exceeds maximum"}
                           /\ ret.err[e].nums[1] = n
                /\ (~BelowMin(j, n) /\ ~AboveMax(j, n)) =>
                     \A e \in DOMAIN ret.err :
                        ret.err[e].kind \notin {"integer value is less than minimum",
                                                 "integer value exceeds maximum"}

(***************************************************************************)
(* C15.  As claimed: every entry of the error Load returns for a failing   *)
(* field identifies that field: the entry of a violated min, max, minLen   *)
(* or maxLen names the key of the field, as the entries of a missing       *)
(* required value and of a failed coercion do.                             *)
(***************************************************************************)
BoundErrorKinds ==
    FieldErrorKinds \ {"required value not found", "error setting"}

C15_ErrorsNameField ==
    (pc = "done" /\ BadTagFields = {}) =>
        LET failing == Failing
        IN  \A e \in DOMAIN ret.err :
               ret.err[e].keys = <<tagOpts[Nth(failing, e)].key>>

\* What the code does: the entries of a missing required value and of a
\* failed coercion name the key, the entry of a violated bound prints the
\* value and the bound and names no field.
C15_BoundErrorsAnonymous ==
    (pc = "done" /\ BadTagFields = {}) =>
        LET failing == Failing
        IN  \A e \in DOMAIN ret.err :
               IF ret.err[e].kind \in BoundErrorKinds
               THEN ret.err[e].keys = << >> /\ ret.err[e].text = Empty
               ELSE ret.err[e].keys = <<tagOpts[Nth(failing, e)].key>>

(***************************************************************************)
(* C16.  As claimed: for a segment default=<rest> of a tag, parseTag       *)
(* stores <rest> as it is written in the tag, its leading and trailing     *)
(* whitespace included.                                                    *)
(***************************************************************************)
Max(S) == CHOOSE n \in S : \A m \in S : n >= m

\* The segments of the tag after the key, as written.
Segments(tag) == Tail(Split(tag))

\* The positions of the segments that read default=<rest>, after the
\* whitespace that leads the segment if lead, and the <rest> of one.
DefaultSegs(segs, lead) ==
    { n \in DOMAIN segs :
        HasPrefix(IF lead THEN TrimLeft(segs[n]) ELSE segs[n], sDefaultEq) }

RestOf(seg) == Tail2(TrimLeft(seg), Len(sDefaultEq))

C16_DefaultVerbatim ==
    (pc \in {"loop", "done"} /\ BadTagFields = {}) =>
        \A j \in DOMAIN tagOpts :
            LET segs == Segments(TagAt(j))
                ds == DefaultSegs(segs, FALSE)
            IN  (ds # {} /\ ds = DefaultSegs(segs, TRUE)) =>
                   tagOpts[j].defaultValue = RestOf(segs[Max(ds)])

(***************************************************************************)
(* C16, amended.  For a segment default=<rest>, possibly led by            *)
(* whitespace, parseTag stores <rest> without its trailing whitespace: the *)
(* whitespace that follows "=" is kept, the whitespace that ends the       *)
(* segment is not (a <rest> of whitespace only gives the empty default);   *)
(* the last such segment counts, a tag without one has the empty default;  *)
(* the value is not checked against the type of the field, so every        *)
(* annotated field has its constraint whatever its default.                *)
(***************************************************************************)
C16_DefaultTrimmedRight ==
    (pc \in {"loop", "done"} /\ BadTagFields = {}) =>
        /\ { tagOpts[j].fieldIdx : j \in DOMAIN tagOpts } = Annotated
        /\ \A j \in DOMAIN tagOpts :
              LET segs == Segments(TagAt(j))
                  ds == DefaultSegs(segs, TRUE)
              IN  tagOpts[j].defaultValue =
                     IF ds = {} THEN Empty ELSE TrimRight(RestOf(segs[Max(ds)]))

\* A default written " 7 " is stored as " 7", next to an integer field
\* whose default is no integer.
C16_Witness ==
    /\ pc = "done"
    /\ Len(tagOpts) = 2
    /\ \E j \in DOMAIN tagOpts :
         /\ Space \o d7 \o Space \in { RestOf(sg) : sg \in Range(Segments(TagAt(j))) }
         /\ tagOpts[j].defaultValue = Space \o d7
    /\ \E j \in DOMAIN tagOpts :
         TypeAt(j) = "int" /\ tagOpts[j].defaultValue = vAbc

(***************************************************************************)
(* C17.  A field whose resolved value cannot be coerced: Load records one  *)
(* error for it, which names the key of the field, the source the value    *)
(* came from (no source for a default) and the parse failure; the field    *)
(* keeps its zero value and is not validated; the loop goes on with the    *)
(* next field, and Load returns no record.                                 *)
(***************************************************************************)
\* The constraints already handled whose value setField rejects.
Uncoercible ==
    { j \in DOMAIN resolved : HasValue(j) /\ ~setField(TypeAt(j), RawValue(j)).ok }

SettingErrors(errs, k) ==
    { e \in DOMAIN errs : errs[e].kind = "error setting" /\ errs[e].keys = <<k>> }

\* The parse failure reported for a field of type t.
ParseFailure(t) ==
    CASE t = "Duration" -> "invalid duration"
      [] t \in IntKinds -> "invalid integer"
      [] t \in UintKinds -> "invalid unsigned integer"
      [] t \in FloatKinds -> "invalid float"
      [] t = "bool" -> "invalid boolean"
      [] OTHER -> "unsupported field type"

C17_CoercionFailure ==
    LET bad == Uncoercible
    IN  /\ \A j \in bad :
             LET k == tagOpts[j].key
                 f == tagOpts[j].fieldIdx
             IN  /\ Cardinality(SettingErrors(validationErrors, k))
                      = Cardinality({ m \in bad : tagOpts[m].key = k })
                 /\ \E e \in SettingErrors(validationErrors, k) :
                       /\ validationErrors[e].srcs =
                            <<IF Having(k) # {} THEN SourceNameOf(k) ELSE "">>
                       /\ validationErrors[e].text = RawValue(j)
                       /\ validationErrors[e].cause = ParseFailure(TypeAt(j))
                 /\ cfg[f] = ZeroValue(TypeAt(j))
                 /\ f \in Range(coerced)
                 /\ f \notin Range(validated)
        /\ Cardinality({ e \in DOMAIN validationErrors :
                            validationErrors[e].kind = "error setting" })
             = Cardinality(bad)
        /\ pc = "loop" => Len(resolved) = i - 1
        /\ (pc = "done" /\ bad # {}) =>
             /\ Len(resolved) = Len(tagOpts)
             /\ ret.cfg = << >>
             /\ \A j \in bad : SettingErrors(ret.err, tagOpts[j].key) # {}

\* The value of the first field, from the source, was not coerced; the
\* second field was set and validated.
C17_Witness ==
    /\ pc = "done"
    /\ ret.cfg = << >>
    /\ Len(tagOpts) = 2
    /\ 1 \in Uncoercible
    /\ ret.err[1].srcs = <<"s1">>
    /\ tagOpts[2].fieldIdx \in Range(validated)
    /\ cfg[tagOpts[2].fieldIdx] = vAbc

(***************************************************************************)
(* C18.  A default is treated as the string of a source is: when no source *)
(* has the key of a field that is not required and has a default, the      *)
(* default is coerced by setField and the coerced value is validated       *)
(* against the bounds of the field, with the outcome the same string has   *)
(* when a source supplies it; a default that cannot be coerced, or that    *)
(* violates a bound, leaves its error and Load returns no record.  (A tag  *)
(* whose default is empty has no default: its field is neither coerced nor *)
(* validated.)                                                             *)
(***************************************************************************)
\* A source that holds the string v for the key k.
SourceOf(k, v) == <<[SourceName |-> "", Err |-> FALSE, Values |-> (k :> v)]>>

\* The constraints already handled that are not required, have no value in
\* the sources and whose tag has a segment default=<rest>.
DefaultDeclared ==
    { j \in DOMAIN resolved :
        /\ Having(tagOpts[j].key) = {}
        /\ ~HasRequired(TagAt(j))
        /\ DefaultSegs(Segments(TagAt(j)), TRUE) # {} }

\* The constraints already handled whose value is their default.
Defaulted ==
    { j \in DOMAIN resolved :
        /\ Having(tagOpts[j].key) = {}
        /\ ~HasRequired(TagAt(j))
        /\ tagOpts[j].defaultValue # Empty }

C18_DefaultLikeSource ==
    /\ \A j \in Defaulted :
          LET o == tagOpts[j]
              t == TypeAt(j)
              f == o.fieldIdx
              set == setField(t, o.defaultValue)
              asDefault == LoadIteration(o, config.Sources, t)
              asSource == LoadIteration([o EXCEPT !.defaultValue = Empty],
                                        SourceOf(o.key, o.defaultValue), t)
          IN  /\ ~resolved[j].found
              /\ f \in Range(coerced)
              /\ asDefault.errs = asSource.errs
              /\ asDefault.val = asSource.val
              /\ asDefault.validated = asSource.validated
              /\ IF ~set.ok
                 THEN /\ cfg[f] = ZeroValue(t)
                      /\ f \notin Range(validated)
                      /\ SettingErrors(validationErrors, o.key) # {}
                      /\ pc = "done" => ret.cfg = << >>
                 ELSE /\ cfg[f] = set.val[1]
                      /\ f \in Range(validated)
                      /\ LET bad == validateField(t, set.val[1], o)
                         IN  bad # << >> =>
                               /\ bad[1] \in Range(validationErrors)
                               /\ pc = "done" => ret.cfg = << >>
    /\ \A j \in DefaultDeclared \ Defaulted :
          /\ tagOpts[j].defaultValue = Empty
          /\ tagOpts[j].fieldIdx \notin Range(coerced)
          /\ tagOpts[j].fieldIdx \notin Range(validated)
          /\ cfg[tagOpts[j].fieldIdx] = ZeroValue(TypeAt(j))
          /\ Failure(j) = ""
    /\ Len(validationErrors)
         = Cardinality({ m \in DOMAIN resolved : Failure(m) # "" })

\* Load failed on a default that exceeds the maximum of its field, and no
\* source has the key.
C18_Witness ==
    /\ pc = "done"
    /\ ret.cfg = << >>
    /\ 1 \in Defaulted
    /\ Len(ret.err) = 1
    /\ ret.err[1].kind = "integer value exceeds maximum"
    /\ ret.err[1].nums = <<MaxBound + 1, MaxBound>>

\* Load failed on a default that cannot be coerced.
C18_WitnessUncoercible ==
    /\ pc = "done"
    /\ ret.cfg = << >>
    /\ 1 \in Defaulted \cap Uncoercible
    /\ ret.err[1].kind = "error setting"
    /\ ret.err[1].srcs = <<"">>

(***************************************************************************)
(* C19.  A field that is not required, has no default and whose key no     *)
(* source finds is neither coerced nor validated and keeps its zero value; *)
(* Load records no error for it, also when the zero value is below the min *)
(* or the minLen of the field: the errors of Load are those of the other   *)
(* fields.                                                                 *)
(***************************************************************************)
\* The constraints without a value that are not required.
Unresolved ==
    { j \in DOMAIN tagOpts :
        /\ Having(tagOpts[j].key) = {}
        /\ ~HasRequired(TagAt(j))
        /\ tagOpts[j].defaultValue = Empty }

C19_UnresolvedSkipped ==
    LET skipped == Unresolved
    IN  /\ \A j \in skipped \cap DOMAIN resolved :
             /\ ~resolved[j].found
             /\ tagOpts[j].fieldIdx \notin Range(coerced)
             /\ tagOpts[j].fieldIdx \notin Range(validated)
             /\ cfg[tagOpts[j].fieldIdx] = ZeroValue(TypeAt(j))
        /\ Len(validationErrors)
             = Cardinality({ m \in DOMAIN resolved \ skipped : Failure(m) # "" })
        /\ pc = "loop" => Len(resolved) = i - 1
        /\ (pc = "done" /\ BadTagFields = {}) =>
             /\ Len(resolved) = Len(tagOpts)
             /\ (ret.cfg # << >>)
                  <=> (\A m \in DOMAIN tagOpts \ skipped : Failure(m) = "")
             /\ ret.cfg # << >> =>
                  \A j \in skipped :
                     ret.cfg[1][tagOpts[j].fieldIdx] = ZeroValue(TypeAt(j))

\* A record was loaded whose integer field has no value and a minimum
\* above zero.
C19_Witness ==
    /\ pc = "done"
    /\ ret.cfg # << >>
    /\ 1 \in Unresolved
    /\ tagOpts[1].min = <<MaxBound>>
    /\ ret.cfg[1][tagOpts[1].fieldIdx] = 0

\* The same for a string field with a minLen above zero.
C19_WitnessString ==
    /\ pc = "done"
    /\ ret.cfg # << >>
    /\ 1 \in Unresolved
    /\ tagOpts[1].minLen = <<MaxBound>>
    /\ ret.cfg[1][tagOpts[1].fieldIdx] = Empty

(***************************************************************************)
(* C20.  As claimed: whenever GetValue of a source returns an error during *)
(* the resolution of a key, a warning for that source and key is written   *)
(* to the log before the next source is asked: the log holds one warning   *)
(* for every call that failed.                                             *)
(***************************************************************************)
\* The GetValue calls made so far that returned an error.
FailedCalls == { c \in DOMAIN calls : config.Sources[calls[c].src].Err }

Warnings == { e \in DOMAIN logged : logged[e].level = "warn" }

C20_SourceErrorLogged ==
    /\ Cardinality(Warnings) = Cardinality(FailedCalls)
    /\ \A c \in FailedCalls :
          WarnEventSent(config.Sources[calls[c].src].SourceName, calls[c].key)[1]
            \in Range(logged)

\* What the code does: the warning is built and never sent, so that the
\* log holds the events of the values found and nothing else.
C20_SourceErrorSilent ==
    /\ Warnings = {}
    /\ Len(logged) = Cardinality({ j \in DOMAIN resolved : resolved[j].found })
    /\ \A j \in DOMAIN resolved :
          resolved[j].found =>
             FoundEvent(resolved[j].sourceName, resolved[j].key, resolved[j].value)
               \in Range(logged)

(***************************************************************************)
(* C21.  As claimed: a constraint whose key is empty (the first segment of *)
(* its tag is empty) is never resolved from a source, whatever keys the    *)
(* sources hold.                                                           *)
(***************************************************************************)
NoKey == { j \in DOMAIN resolved : resolved[j].key = Empty }

C21_EmptyKeyUnresolvable == \A j \in NoKey : ~resolved[j].found

(***************************************************************************)
(* C21, amended.  The empty key is looked up as every key is: the          *)
(* constraint is resolved exactly when a source that returns no error      *)
(* holds the empty key, with the value of the first such source; the       *)
(* command-line source holds it exactly when an argument, its dashes       *)
(* stripped, begins with "=".                                              *)
(***************************************************************************)
C21_EmptyKeyLookedUp ==
    /\ \A j \in NoKey :
          /\ resolved[j].found <=> Having(Empty) # {}
          /\ resolved[j].found =>
                /\ resolved[j].value = config.Sources[Min(Having(Empty))].Values[Empty]
                /\ resolved[j].sourceName
                      = config.Sources[Min(Having(Empty))].SourceName
    /\ pc \notin {"args"} /\ args # << >> /\ Len(config.Sources) > 0
          /\ config.Sources[1].SourceName = "cli" =>
          (Empty \in DOMAIN config.Sources[1].Values
             <=> \E n \in DOMAIN args :
                   TrimDashes(args[n]) # Empty /\ Head(TrimDashes(args[n])) = "=")

\* Load has resolved a constraint with the empty key from the command-line
\* source and returned.
C21_Witness ==
    /\ pc = "done"
    /\ \E j \in NoKey : resolved[j].found /\ resolved[j].sourceName = "cli"

\* The same from a mock source that holds the empty key.
C21_WitnessMock ==
    /\ pc = "done"
    /\ \E j \in NoKey : resolved[j].found /\ resolved[j].sourceName = "s2"

(***************************************************************************)
(* C22.  The bounds of an unsigned field are compared as unsigned 64-bit   *)
(* numbers, a negative bound b standing for 2^64 + b: with a negative min  *)
(* every value of the field (each is below 2^64 + b) fails with the error  *)
(* of the minimum, and with a negative max no value exceeds the maximum,   *)
(* so that Load returns records whose unsigned field is greater than its   *)
(* negative max.  A bound that is not negative is compared as it is.       *)
(***************************************************************************)
\* The unsigned constraints resolved to a literal ParseUint accepts.
UintValued ==
    { j \in DOMAIN tagOpts :
        TypeAt(j) \in UintKinds /\ HasValue(j) /\ ParseUint(RawValue(j)).ok }

UintBelowMin(j, v) ==
    tagOpts[j].min # << >> /\ (tagOpts[j].min[1] < 0 \/ v < tagOpts[j].min[1])

UintAboveMax(j, v) ==
    tagOpts[j].max # << >> /\ tagOpts[j].max[1] >= 0 /\ v > tagOpts[j].max[1]

C22_UnsignedBounds ==
    (pc = "done" /\ BadTagFields = {}) =>
        \A j \in UintValued :
            LET v == cfg[tagOpts[j].fieldIdx]
            IN  /\ UintBelowMin(j, v) =>
                     /\ ret.cfg = << >>
                     /\ \E e \in DOMAIN ret.err :
                           /\ ret.err[e].kind
                                 = "unsigned integer value is less than minimum"
                           /\ ret.err[e].nums = <<v, tagOpts[j].min[1]>>
                /\ (~UintBelowMin(j, v) /\ UintAboveMax(j, v)) =>
                     /\ ret.cfg = << >>
                     /\ \E e \in DOMAIN ret.err :
                           /\ ret.err[e].kind
                                 = "unsigned integer value exceeds maximum"
                           /\ ret.err[e].nums = <<v, tagOpts[j].max[1]>>
                /\ (~UintBelowMin(j, v) /\ ~UintAboveMax(j, v)) =>
                     /\ \A e \in DOMAIN ret.err :
                           ret.err[e].kind \notin
                              {"unsigned integer value is less than minimum",
                               "unsigned integer value exceeds maximum"}
                     /\ Len(ret.err) = 0 => ret.cfg[1][tagOpts[j].fieldIdx] = v

\* Load returned a record whose unsigned field is greater than its max.
C22_Witness ==
    /\ pc = "done"
    /\ ret.cfg # << >>
    /\ \E j \in UintValued :
          /\ tagOpts[j].max # << >>
          /\ tagOpts[j].max[1] < 0
          /\ ret.cfg[1][tagOpts[j].fieldIdx] > tagOpts[j].max[1]
          /\ ret.cfg[1][tagOpts[j].fieldIdx] > 0

\* Load failed on an unsigned value that is not below its negative min.
C22_WitnessMin ==
    /\ pc = "done"
    /\ ret.cfg = << >>
    /\ \E j \in UintValued :
          /\ tagOpts[j].min # << >>
          /\ tagOpts[j].min[1] < 0
          /\ cfg[tagOpts[j].fieldIdx] > 0

(***************************************************************************)
(* C23.  validateField reports one violation at most, the lower bound      *)
(* first: a value that violates both of its bounds (the lower bound is     *)
(* then above the upper one) gets the error of the lower bound alone, and  *)
(* Load records at most one error for each constraint it has handled.      *)
(***************************************************************************)
LowerKinds ==
    {"string length less than minimum", "integer value is less than minimum",
     "unsigned integer value is less than minimum",
     "float value is less than minimum"}

UpperKinds == BoundErrorKinds \ LowerKinds

\* The constraints whose value, coerced, violates both of its bounds.
BothViolated ==
    { j \in StringValued : TooShort(j) /\ TooLong(j) }
      \cup { j \in IntValued \ Overflowing :
                /\ BelowMin(j, ParseInt(RawValue(j)).val)
                /\ AboveMax(j, ParseInt(RawValue(j)).val) }
      \cup { j \in UintValued :
                /\ UintBelowMin(j, cfg[tagOpts[j].fieldIdx])
                /\ UintAboveMax(j, cfg[tagOpts[j].fieldIdx]) }
      \cup { j \in DOMAIN tagOpts :
                /\ TypeAt(j) \in FloatKinds /\ HasValue(j)
                /\ ParseFloat(RawValue(j)).ok
                /\ tagOpts[j].min # << >> /\ tagOpts[j].max # << >>
                /\ FloatLess(ParseFloat(RawValue(j)).val, tagOpts[j].min[1])
                /\ FloatGreater(ParseFloat(RawValue(j)).val, tagOpts[j].max[1]) }

C23_OneViolation ==
    /\ pc \in {"loop", "done"} /\ i > 0 => Len(validationErrors) <= i - 1
    /\ (pc = "done" /\ BadTagFields = {}) =>
          /\ Len(ret.err) <= Len(tagOpts)
          /\ \A j \in BothViolated :
                /\ ret.cfg = << >>
                /\ Cardinality({ e \in DOMAIN ret.err :
                                   ret.err[e].kind \in LowerKinds }) >= 1
                /\ Cardinality({ e \in DOMAIN ret.err :
                                   ret.err[e].kind \in BoundErrorKinds })
                      <= Cardinality({ k \in DOMAIN tagOpts :
                                         tagOpts[k].min # << >>
                                           \/ tagOpts[k].max # << >>
                                           \/ tagOpts[k].minLen # << >>
                                           \/ tagOpts[k].maxLen # << >> })

\* Load failed on a signed value below its min and above its max.
C23_Witness ==
    /\ pc = "done"
    /\ \E j \in BothViolated :
          /\ TypeAt(j) \in IntKinds
          /\ ret.err = <<MkErr("integer value is less than minimum", << >>,
                               << >>, Empty,
                               <<cfg[tagOpts[j].fieldIdx], tagOpts[j].min[1]>>)>>

\* The same for a string, an unsigned value and a float.
C23_WitnessKinds ==
    /\ pc = "done"
    /\ \E j \in BothViolated :
          TypeAt(j) \in {"string"} \cup UintKinds \cup FloatKinds

(***************************************************************************)
(* C24.  A field of a kind setField has no case for: when a value is       *)
(* resolved for it (from a source, or from a default that is not empty)    *)
(* Load records the unsupported-type error under its key and fails, and    *)
(* the field is left untouched and is not validated; when it is not        *)
(* required and no value is resolved it records no error, and Load does    *)
(* not fail because of it.                                                 *)
(***************************************************************************)
SupportedKinds == {"string", "bool"} \cup IntKinds \cup UintKinds \cup FloatKinds

Unsupported ==
    { j \in DOMAIN tagOpts : Kind(TypeAt(j)) \notin SupportedKinds }

C24_UnsupportedKind ==
    (pc = "done" /\ BadTagFields = {}) =>
        \A j \in Unsupported :
            /\ cfg[tagOpts[j].fieldIdx] = ZeroValue(TypeAt(j))
            /\ tagOpts[j].fieldIdx \notin Range(validated)
            /\ HasValue(j) =>
                  /\ ret.cfg = << >>
                  /\ \E e \in DOMAIN ret.err :
                        /\ ret.err[e].kind = "error setting"
                        /\ ret.err[e].cause = "unsupported field type"
                        /\ ret.err[e].keys = <<tagOpts[j].key>>
            /\ ~HasValue(j) =>
                  /\ SettingErrors(ret.err, tagOpts[j].key) = {}
                  /\ tagOpts[j].fieldIdx \notin Range(coerced)
                  /\ ~HasRequired(TagAt(j)) =>
                        /\ \A e \in DOMAIN ret.err :
                              ret.err[e].keys # <<tagOpts[j].key>>
                        /\ Len(tagOpts) = 1 => ret.cfg # << >>

\* Load failed on a value resolved from a source for such a field.
C24_Witness ==
    /\ pc = "done"
    /\ ret.cfg = << >>
    /\ \E j \in Unsupported :
          /\ resolved[j].found
          /\ SettingErrors(ret.err, tagOpts[j].key) # {}

\* Load failed on the default of such a field.
C24_WitnessDefault ==
    /\ pc = "done"
    /\ ret.cfg = << >>
    /\ \E j \in Unsupported : ~resolved[j].found /\ HasValue(j)

\* Load returned a record with such a field, not required and unresolved.
C24_WitnessUnresolved ==
    /\ pc = "done"
    /\ ret.cfg # << >>
    /\ \E j \in Unsupported : ~HasValue(j)

(***************************************************************************)
(* C25.  Load calls on one loader do not interfere: whatever the order of  *)
(* the steps of two calls, each call returns what a call running alone     *)
(* returns, the same error or a record with the same contents; during a    *)
(* call its record is written by no other call, and the loader and its     *)
(* sources are never changed.                                              *)
(***************************************************************************)
\* The loop of Load (115-141) run without interruption over the
\* constraints opts, from the record rec and the errors errs: [rec, errs].
RECURSIVE LoadLoop(_, _, _, _, _)
LoadLoop(t, srcs, opts, rec, errs) ==
    IF opts = << >> THEN [rec |-> rec, errs |-> errs]
    ELSE LET it == LoadIteration(Head(opts), srcs,
                                 t.fields[Head(opts).fieldIdx].type)
         IN  LoadLoop(t, srcs, Tail(opts),
                      IF it.val = << >> THEN rec
                      ELSE [rec EXCEPT ![Head(opts).fieldIdx] = it.val[1]],
                      AppendErrors(errs, it.errs))

\* What a Load of the type t returns when it runs alone on the loader l:
\* [cfg, err], cfg the record itself.
LoadAlone(t, l) ==
    LET r == parseAllTags(t.fields, l.tagKey)
        end == LoadLoop(t, l.sources, r.opts, ZeroOf(t), << >>)
    IN  IF r.err # << >> THEN [cfg |-> << >>, err |-> r.err]
        ELSE LoadResult(end.rec, end.errs)

\* The calls that have returned.
Returned == { c \in DOMAIN loads : loads[c].pc = "done" }

\* The calls that are between their tag pass and their return.
Running == { c \in DOMAIN loads : loads[c].pc = "loop" }

C25_NoInterference ==
    /\ \A c \in Returned :
          /\ loads[c].out = LoadAlone(T, loader[1]).cfg
          /\ loads[c].ret.err = LoadAlone(T, loader[1]).err
          /\ loads[c].ret.cfg = << >> <=> loads[c].out = << >>
    /\ \A c \in Running :
          LET sofar == LoadLoop(T, loader[1].sources,
                                SubSeq(loads[c].tagOpts, 1, loads[c].i - 1),
                                ZeroOf(T), << >>)
          IN  /\ heap[loads[c].rec] = sofar.rec
              /\ loads[c].validationErrors = sofar.errs
    /\ loader # << >> =>
          /\ loader[1].sources = config.Sources
          /\ loader[1].tagKey = TagKeyOf(config)

\* Two calls are both in their loops, each after an iteration that has set
\* a field of its own record.
C25_Witness ==
    /\ Running = Callers
    /\ \A c \in Callers :
          /\ loads[c].i >= 2
          /\ heap[loads[c].rec] # ZeroOf(T)
    /\ loads[1].rec # loads[2].rec

(***************************************************************************)
(* C26.  Within one Load the constraints are handled in the order in which *)
(* their fields are declared, and for each the sources are asked one at a  *)
(* time in the configured order, up to the first one that answers          *)
(* found: the GetValue calls made are, constraint after constraint, those  *)
(* of the sources 1, 2, ... up to the winner (all of them when none        *)
(* answers), each source once, none after the winner.                      *)
(***************************************************************************)
\* The GetValue calls of the first j constraints.
RECURSIVE CallsUpTo(_)
CallsUpTo(j) ==
    IF j = 0 THEN << >>
    ELSE CallsUpTo(j - 1)
           \o [n \in 1..Asked(tagOpts[j].key) |->
                 [src |-> n, key |-> tagOpts[j].key]]

C26_SequentialLookup ==
    (pc \in {"loop", "done"} /\ i > 0) =>
        /\ calls = CallsUpTo(i - 1)
        /\ Len(resolved) = i - 1
        /\ \A j \in DOMAIN resolved : resolved[j].key = tagOpts[j].key
        /\ \A j, k \in DOMAIN tagOpts :
              j < k => tagOpts[j].fieldIdx < tagOpts[k].fieldIdx

\* Load has handled two fields: the first was answered by the second source
\* after the first had none, the second by the first source, which the
\* second source holds too and was not asked for.
C26_Witness ==
    /\ pc = "done"
    /\ Len(config.Sources) = 2
    /\ Len(tagOpts) = 2
    /\ Len(calls) = 3
    /\ calls[1].src = 1 /\ calls[2].src = 2 /\ calls[3].src = 1
    /\ Having(tagOpts[2].key) = {1, 2}

(***************************************************************************)
(* C27.  The command-line source reads its arguments in order.  An         *)
(* argument, its leading dashes stripped, that holds no "=" gives no key;  *)
(* one that holds "=" gives the key before its first "=" the value after   *)
(* it, further "=" included; of several arguments with one key the last    *)
(* gives the value GetValue returns, and Load resolves from it.            *)
(***************************************************************************)
\* The positions of "=" in the string s.
EqAt(s) == { p \in DOMAIN s : s[p] = "=" }

\* The arguments that assign: those that hold "=" once stripped.
Assigning == { n \in DOMAIN args : EqAt(TrimDashes(args[n])) # {} }

ArgKey(n) == SubSeq(TrimDashes(args[n]), 1, Min(EqAt(TrimDashes(args[n]))) - 1)

ArgValue(n) ==
    SubSeq(TrimDashes(args[n]), Min(EqAt(TrimDashes(args[n]))) + 1,
           Len(TrimDashes(args[n])))

\* The last argument that assigns the key k.
LastOf(k) == Max({ n \in Assigning : ArgKey(n) = k })

\* The source made from the arguments, once it is made.
CLIMade == pc # "args" /\ Len(config.Sources) > 0
             /\ config.Sources[1].SourceName = "cli"

C27_ArgsInOrder ==
    CLIMade =>
        /\ DOMAIN config.Sources[1].Values = { ArgKey(n) : n \in Assigning }
        /\ \A k \in {Empty, kA, kB} :
              GetValue(config.Sources[1], k)
                = IF \E n \in Assigning : ArgKey(n) = k
                  THEN [val |-> ArgValue(LastOf(k)), found |-> TRUE, err |-> FALSE]
                  ELSE [val |-> Empty, found |-> FALSE, err |-> FALSE]
        /\ \A j \in DOMAIN resolved :
              /\ resolved[j].sourceName = "cli"
                    <=> \E n \in Assigning : ArgKey(n) = resolved[j].key
              /\ resolved[j].sourceName = "cli" =>
                    resolved[j].value = ArgValue(LastOf(resolved[j].key))

\* Load has resolved a key from the second of two arguments that assign it
\* different values.
C27_Witness ==
    /\ pc = "done"
    /\ CLIMade
    /\ Len(args) = 2
    /\ Assigning = {1, 2}
    /\ ArgKey(1) = ArgKey(2)
    /\ ArgValue(1) # ArgValue(2)
    /\ \E j \in DOMAIN resolved :
          /\ resolved[j].sourceName = "cli"
          /\ resolved[j].value = ArgValue(2)

\* The source was made from an argument without "=" and from one whose
\* value holds "=".
C27_WitnessForms ==
    /\ CLIMade
    /\ Len(args) = 2
    /\ Assigning = {2}
    /\ EqAt(ArgValue(2)) # {}

(***************************************************************************)
(* C28.  Load keeps no state between calls and is deterministic: the calls *)
(* on one loader, one after another or side by side, return equal          *)
(* outcomes (records with equal contents, or errors with the same          *)
(* entries); the records of two calls are at different addresses, so that  *)
(* what a caller writes to its record is not seen by a later call.         *)
(***************************************************************************)
C28_Stateless ==
    \A c, d \in Returned :
        /\ loads[c].out = loads[d].out
        /\ loads[c].ret.err = loads[d].ret.err
        /\ (c # d /\ loads[c].ret.cfg # << >>) =>
              /\ loads[d].ret.cfg # << >>
              /\ loads[c].ret.cfg[1] # loads[d].ret.cfg[1]
              /\ loads[c].rec # loads[d].rec
        /\ (c \in loads[d].dirty /\ loads[d].ret.cfg # << >>) =>
              /\ <<heap[loads[c].ret.cfg[1]]>> # loads[d].out
              /\ \A k \in DOMAIN T.fields :
                    heap[loads[d].ret.cfg[1]][k] = loads[d].out[1][k]
                      \/ heap[loads[d].ret.cfg[1]][k] = Scribble(T.fields[k].type)

\* The second call began after the first had returned a record and its
\* caller had written to it, and has returned a record equal to the one
\* the first call returned.
C28_Witness ==
    /\ Returned = Callers
    /\ loads[2].seen = {1}
    /\ loads[2].dirty = {1}
    /\ loads[1].ret.cfg # << >>
    /\ loads[2].ret.cfg # << >>
    /\ loads[2].out = loads[1].out
    /\ heap[loads[2].ret.cfg[1]] = loads[2].out[1]
    /\ heap[loads[1].ret.cfg[1]] # loads[1].out[1]

\* Two calls, one after the other, have failed with the same errors.
C28_WitnessErrors ==
    /\ Returned = Callers
    /\ loads[2].seen = {1}
    /\ Len(loads[1].ret.err) = 2
    /\ loads[2].ret.err = loads[1].ret.err

(***************************************************************************)
(* C29.  A value that a source finds and that is the empty string is a     *)
(* resolved value: no missing-required error is recorded for its key, the  *)
(* default is not used, and setField is called with it.  For an integer,   *)
(* unsigned, float, bool or duration field the coercion fails and so does  *)
(* Load; a string field is set to "" and validated, its length 0 compared  *)
(* with minLen.                                                            *)
(***************************************************************************)
\* The constraints whose key the first source that has it holds as "".
FoundEmpty ==
    { j \in DOMAIN tagOpts :
        Having(tagOpts[j].key) # {} /\ SourceValue(tagOpts[j].key) = Empty }

ParsedKinds == IntKinds \cup UintKinds \cup FloatKinds \cup {"bool", "Duration"}

C29_EmptyValueResolved ==
    (pc = "done" /\ BadTagFields = {}) =>
        \A j \in FoundEmpty :
            LET k == tagOpts[j].key
                t == TypeAt(j)
                f == tagOpts[j].fieldIdx
            IN  /\ resolved[j].found
                /\ resolved[j].value = Empty
                /\ RequiredErrors(ret.err, k) = {}
                /\ f \in Range(coerced)
                /\ t \in ParsedKinds =>
                      /\ ret.cfg = << >>
                      /\ cfg[f] = ZeroValue(t)
                      /\ f \notin Range(validated)
                      /\ \E e \in SettingErrors(ret.err, k) :
                            /\ ret.err[e].text = Empty
                            /\ ret.err[e].cause = ParseFailure(t)
                            /\ ret.err[e].srcs = <<SourceNameOf(k)>>
                /\ t = "string" =>
                      /\ cfg[f] = Empty
                      /\ f \in Range(validated)
                      /\ SettingErrors(ret.err, k) = {}
                      /\ IF tagOpts[j].minLen # << >> /\ tagOpts[j].minLen[1] > 0
                         THEN /\ ret.cfg = << >>
                              /\ \E e \in DOMAIN ret.err :
                                    /\ ret.err[e].kind
                                         = "string length less than minimum"
                                    /\ ret.err[e].nums = <<0, tagOpts[j].minLen[1]>>
                         ELSE Len(tagOpts) = 1 =>
                                /\ ret.cfg # << >>
                                /\ ret.cfg[1][f] = Empty

\* Load failed on the empty value the command line gives a required
\* integer field.
C29_Witness ==
    /\ pc = "done"
    /\ ret.cfg = << >>
    /\ \E j \in FoundEmpty :
          /\ TypeAt(j) = "int"
          /\ HasRequired(TagAt(j))
          /\ resolved[j].sourceName = "cli"
          /\ SettingErrors(ret.err, tagOpts[j].key) # {}

\* The empty value kept the default from a field of another parsed kind.
C29_WitnessDefault ==
    /\ pc = "done"
    /\ ret.cfg = << >>
    /\ \E j \in FoundEmpty :
          /\ TypeAt(j) \in ParsedKinds \ {"int"}
          /\ tagOpts[j].defaultValue # Empty

\* A record was loaded whose string, with a default, is the empty value.
C29_WitnessString ==
    /\ pc = "done"
    /\ ret.cfg # << >>
    /\ \E j \in FoundEmpty :
          /\ TypeAt(j) = "string"
          /\ tagOpts[j].defaultValue # Empty
          /\ ret.cfg[1][tagOpts[j].fieldIdx] = Empty

\* Load failed on the length 0 of the empty value of a string with minLen=1.
C29_WitnessMinLen ==
    /\ pc = "done"
    /\ ret.cfg = << >>
    /\ \E j \in FoundEmpty : TypeAt(j) = "string" /\ tagOpts[j].minLen = <<1>>

(***************************************************************************)
(* C30.  The option default= with nothing after "=" is the same as no      *)
(* default option: the constraint parsed from the tag is the one parsed    *)
(* from the tag without the option, and for a field that is not required   *)
(* and has no value in any source setField and validateField are not       *)
(* called, no error is recorded and the field keeps its zero value, also   *)
(* when the field is a number, a bool or a duration, which "" is not.      *)
(***************************************************************************)
\* The constraints handled whose tag has default= options, each with
\* nothing after "=", that are not required and have no value in a source.
EmptyDefault ==
    { j \in DOMAIN resolved :
        LET segs == Segments(TagAt(j))
        IN  /\ Having(tagOpts[j].key) = {}
            /\ ~HasRequired(TagAt(j))
            /\ DefaultSegs(segs, TRUE) # {}
            /\ \A n \in DefaultSegs(segs, TRUE) : TrimSpace(segs[n]) = sDefaultEq }

\* The tag without its segments n, n in S.
WithoutSegs(tag, S) ==
    LET parts == Split(tag)
        keep == { n \in DOMAIN parts : n - 1 \notin S }
    IN  JoinComma([m \in 1..Cardinality(keep) |-> parts[Nth(keep, m)]])

C30_EmptyDefaultIsNone ==
    BadTagFields = {} =>
        \A j \in EmptyDefault :
            LET o == tagOpts[j]
                t == TypeAt(j)
                f == o.fieldIdx
                bare == parseTag(WithoutSegs(TagAt(j),
                                             DefaultSegs(Segments(TagAt(j)), TRUE)))
            IN  /\ o.defaultValue = Empty
                /\ bare.warnings = << >>
                /\ [key |-> o.key, required |-> o.required,
                    defaultValue |-> o.defaultValue, min |-> o.min, max |-> o.max,
                    minLen |-> o.minLen, maxLen |-> o.maxLen]
                     = [key |-> bare.opts.key, required |-> bare.opts.required,
                        defaultValue |-> bare.opts.defaultValue,
                        min |-> bare.opts.min, max |-> bare.opts.max,
                        minLen |-> bare.opts.minLen, maxLen |-> bare.opts.maxLen]
                /\ ~resolved[j].found
                /\ f \notin Range(coerced)
                /\ f \notin Range(validated)
                /\ cfg[f] = ZeroValue(t)
                /\ \A e \in DOMAIN validationErrors :
                      validationErrors[e].keys # <<o.key>>
                /\ pc = "done" =>
                      /\ ret.err = << >>
                      /\ ret.cfg # << >>
                      /\ ret.cfg[1][f] = ZeroValue(t)

\* A record was loaded whose integer field, with default= and a min above
\* zero, is zero.
C30_Witness ==
    /\ pc = "done"
    /\ ret.cfg # << >>
    /\ 1 \in EmptyDefault
    /\ TypeAt(1) = "int"
    /\ tagOpts[1].min = <<MaxBound>>
    /\ ret.cfg[1][tagOpts[1].fieldIdx] = 0

\* The same for an unsigned, a float, a bool and a duration field.
C30_WitnessKinds ==
    /\ pc = "done"
    /\ ret.cfg # << >>
    /\ 1 \in EmptyDefault
    /\ TypeAt(1) \in UintKinds \cup FloatKinds \cup {"bool", "Duration"}
    /\ ~setField(TypeAt(1), Empty).ok

====
